---------------------------- MODULE Spec2Model ----------------------------
(***************************************************************************)
(* A model of the PyTorch issue-fixing agent: the workflow engine          *)
(* (agent/workflow.py), the controller's run loop with pause/resume and    *)
(* process restarts (agent/controller.py), the state manager's file        *)
(* protocol (agent/state_manager.py) and the MCP client manager's request  *)
(* correlation (mcp/client_manager.py).                                    *)
(*                                                                         *)
(* Optional values (Python's None) are sequences of length 0 or 1.         *)
(* Time is counted in abstract seconds since the run loop was entered.     *)
(***************************************************************************)
EXTENDS Integers, Sequences, FiniteSets, TLC

-----------------------------------------------------------------------------
(* Bounds of the model *)

\* WorkflowEngine.max_attempts (config.agent.max_attempts), at least 1
max_attempts == 2

\* WorkflowEngine.monitoring_interval, in abstract seconds
monitoring_interval == 2

\* the cap of one monitoring sleep (300 s in the code), in abstract seconds
MaxSleep == 1

\* the clock stops advancing here
MaxTime == 4

\* pause(), resume() and process restarts the operator performs in one behaviour
MaxInterventions == 3

\* tasks that call call_tool concurrently
MaxCallers == 2

\* requests the manager sends in one behaviour
MaxRequests == 2

\* the largest request id issued: the handshakes of start_all and
\* MaxRequests more
RequestIdCap == 2 + MaxRequests

\* the largest request id issued by a manager driven by one task
LifeIdCap == 1 + MaxRequests

\* threading.Timer objects created in one behaviour
MaxTimers == 2

\* the largest configured max_retries
MaxRetries == 3

\* ClaudeConfig.retry_delay, in seconds
retry_delay == 1

-----------------------------------------------------------------------------
(* IssueState *)

FETCHING == "fetching"
ANALYZING == "analyzing"
FIXING == "fixing"
CREATING_PR == "creating_pr"
MONITORING == "monitoring"
ADDRESSING_REVIEWS == "addressing_reviews"
COMPLETED == "completed"
FAILED == "failed"
PAUSED == "paused"

IssueState ==
    {FETCHING, ANALYZING, FIXING, CREATING_PR, MONITORING,
     ADDRESSING_REVIEWS, COMPLETED, FAILED, PAUSED}

\* self.current_state before _load_or_create_state has run
NoState == "none"

None == <<>>
Some(x) == <<x>>

\* the sentinel PR number of a dry run
DryRunPR == 999999

-----------------------------------------------------------------------------
(* WorkflowContext *)

\* the issue the agent was constructed for, and its repository
issue_number == 42

repo == "pytorch/pytorch"

NewContext ==
    [issue_number |-> issue_number,
     repo |-> repo,
     issue_data |-> None,
     pr_number |-> None,
     branch_name |-> None,
     fix_attempt_count |-> 0,
     last_check_time |-> None,
     failing_tests |-> <<>>,
     review_comments |-> <<>>,
     generated_files |-> <<>>,
     error_history |-> <<>>,
     metadata |-> {}]

-----------------------------------------------------------------------------
(* WorkflowEngine *)

_has_review_comments(ctx) == Len(ctx.review_comments) > 0

\* fault: failing tests overlooked
no_failing_tests(ctx) == FALSE

_has_failing_tests(ctx) == Len(ctx.failing_tests) > 0

_is_ready_for_completion(ctx) ==
    /\ Len(ctx.failing_tests) = 0
    /\ Len(ctx.review_comments) = 0
    /\ ctx.pr_number # None

_should_continue_monitoring(ctx, t) ==
    IF ctx.last_check_time = None
    THEN TRUE
    ELSE t - ctx.last_check_time[1] < monitoring_interval

\* fault: a limit that lets one attempt too many through
AttemptsExceeded(ctx) == ctx.fix_attempt_count > max_attempts

AttemptsExhausted(ctx) == ctx.fix_attempt_count >= max_attempts

\* the condition_fn of a transition, by name
can_transition(t, ctx) ==
    CASE t.cond = "always" -> TRUE
      [] t.cond = "exhausted" -> AttemptsExhausted(ctx)
      [] t.cond = "has_review_comments" -> _has_review_comments(ctx)
      [] t.cond = "has_failing_tests" -> _has_failing_tests(ctx)
      [] t.cond = "ready_for_completion" -> _is_ready_for_completion(ctx)

WorkflowTransition(to, cond) == [to |-> to, cond |-> cond]

\* self.transitions, the ordered list of each state
transitions(s) ==
    CASE s = FETCHING ->
           <<WorkflowTransition(ANALYZING, "always"),
             WorkflowTransition(FAILED, "always")>>
      [] s = ANALYZING ->
           <<WorkflowTransition(FIXING, "always"),
             WorkflowTransition(FAILED, "always")>>
      [] s = FIXING ->
           <<WorkflowTransition(CREATING_PR, "always"),
             WorkflowTransition(FAILED, "exhausted"),
             WorkflowTransition(FIXING, "always")>>
      [] s = CREATING_PR ->
           <<WorkflowTransition(MONITORING, "always"),
             WorkflowTransition(FAILED, "always")>>
      [] s = MONITORING ->
           <<WorkflowTransition(ADDRESSING_REVIEWS, "has_review_comments"),
             WorkflowTransition(ADDRESSING_REVIEWS, "has_failing_tests"),
             WorkflowTransition(COMPLETED, "ready_for_completion"),
             WorkflowTransition(MONITORING, "always")>>
      [] s = ADDRESSING_REVIEWS ->
           <<WorkflowTransition(MONITORING, "always"),
             WorkflowTransition(FAILED, "exhausted")>>
      [] s = COMPLETED -> <<>>
      [] s = FAILED -> <<>>
      [] s = PAUSED ->
           <<WorkflowTransition(FETCHING, "always"),
             WorkflowTransition(ANALYZING, "always"),
             WorkflowTransition(FIXING, "always"),
             WorkflowTransition(MONITORING, "always"),
             WorkflowTransition(ADDRESSING_REVIEWS, "always")>>
      [] OTHER -> <<>>

get_valid_transitions(s, ctx) ==
    LET allowed == SelectSeq(transitions(s), LAMBDA t : can_transition(t, ctx))
    IN  [i \in 1..Len(allowed) |-> allowed[i].to]

can_transition_to(s, target, ctx) ==
    \E i \in 1..Len(get_valid_transitions(s, ctx)) :
        get_valid_transitions(s, ctx)[i] = target

\* fault: a choice of the last valid transition, which is FAILED wherever
\* the table lists it
last_valid_transition(s, ctx, t) ==
    LET valid == get_valid_transitions(s, ctx)
    IN  IF Len(valid) = 0 THEN NoState ELSE valid[Len(valid)]

\* NoState stands for the None the code returns
get_next_state(s, ctx, t) ==
    LET valid == get_valid_transitions(s, ctx)
    IN  IF Len(valid) = 0 THEN NoState
        ELSE IF s = MONITORING THEN
            IF _has_review_comments(ctx) \/ _has_failing_tests(ctx)
            THEN ADDRESSING_REVIEWS
            ELSE IF _is_ready_for_completion(ctx) THEN COMPLETED
            ELSE IF _should_continue_monitoring(ctx, t) THEN MONITORING
            ELSE COMPLETED
        ELSE IF s = FIXING THEN
            IF AttemptsExhausted(ctx) THEN FAILED
            ELSE IF ctx.pr_number = None THEN CREATING_PR
            ELSE MONITORING
        ELSE IF s = ADDRESSING_REVIEWS THEN
            IF AttemptsExhausted(ctx) THEN FAILED
            ELSE MONITORING
        ELSE valid[1]

Max(a, b) == IF a >= b THEN a ELSE b

Min(a, b) == IF a <= b THEN a ELSE b

get_time_until_next_check(ctx, t) ==
    IF ctx.last_check_time = None
    THEN 0
    ELSE Max(0, ctx.last_check_time[1] + monitoring_interval - t)

\* fault: PAUSED taken for a terminal state
terminal_or_paused(s) == s \in {COMPLETED, FAILED, PAUSED}

is_terminal_state(s) == s \in {COMPLETED, FAILED}

-----------------------------------------------------------------------------
(* State *)

VARIABLES
    \* IssueFixingAgent
    current_state,   \* self.current_state, NoState before the state is loaded
    context,         \* self.context (NewContext while current_state is NoState)
    running,         \* self.running
    dry_run,         \* self.dry_run
    pc,              \* where run() stands
    executing,       \* the state whose action _execute_current_state entered
    now,             \* datetime.now()
    interventions,   \* pause(), resume() and restarts performed so far
    fix_runs,        \* FIXING and ADDRESSING_REVIEWS actions entered so far,
                     \* counted up to max_attempts + 1
    resuming,        \* run() was called by resume() and has entered no action yet
    effects,         \* the calls the state actions have made that change the
                     \* repository, the working tree or GitHub
    \* StateManager
    files,           \* the state file and its sibling temporary file
    sm_current,      \* self._current_state
    sm_pc,           \* where save_state stands
    sm_arg,          \* the state save_state was called with
    last_saved,      \* the state of the last save_state that returned True
    loaded,          \* what the last load_state returned
    lock,            \* self._lock: the thread that holds it, if any
    timer,           \* every threading.Timer created: its state
    backup_timer,    \* self._backup_timer
    bk_buf,          \* the text each timer thread's backup_state has read
    backups,         \* the contents of the backup files
    auto_stopped,    \* stop_auto_backup has returned, no start_auto_backup since
    \* WorkflowEngine, applied to a drawn state and context
    eng_pc,          \* "input" until the engine has been applied, then "done"
    eng_valid,       \* get_valid_transitions(current_state, context)
    eng_next,        \* get_next_state(current_state, context)
    eng_terminal,    \* is_terminal_state(current_state)
    eng_can,         \* the targets can_transition_to(current_state, .) accepts
    \* MCPClientManager
    request_id,        \* self._request_id
    pending_requests,  \* self._pending_requests, in insertion order
    call,              \* each caller's call_tool invocation
    future,            \* each caller's asyncio.Future
    server_in,         \* requests each server has received and not answered
    server_out,        \* lines each server has written and the manager not read
    servers,           \* the keys of self.servers
    issued,            \* every request id _get_next_request_id has returned
    \* ClaudeClient._make_request
    max_retries,     \* self.config.max_retries
    llm_pc,          \* where _make_request stands
    attempt,         \* the loop variable
    llm_calls,       \* messages.create calls made so far
    errors,          \* the error each failed attempt raised, in order
    waits,           \* every asyncio.sleep made: error, attempt and delay
    llm_text,        \* the text returned
    raised,          \* the error that left _make_request
    \* a routine applied to inputs drawn at the start
    fn_pc,           \* "off", "input" until the routine has run, then "done"
    fn_in,           \* its inputs
    fn_out           \* what it returned or raised, and the calls it made

ctlVars ==
    <<current_state, context, running, dry_run, pc, executing, now,
      interventions, fix_runs, resuming, effects>>

smVars == <<files, sm_current, sm_pc, sm_arg, last_saved, loaded, lock>>

bkVars == <<timer, backup_timer, bk_buf, backups, auto_stopped>>

engVars == <<eng_pc, eng_valid, eng_next, eng_terminal, eng_can>>

mcpVars ==
    <<request_id, pending_requests, call, future, server_in, server_out,
      servers, issued>>

llmVars ==
    <<max_retries, llm_pc, attempt, llm_calls, errors, waits, llm_text,
      raised>>

\* a routine applied to drawn inputs
fnVars == <<fn_pc, fn_in, fn_out>>

vars == <<ctlVars, smVars, engVars, mcpVars, bkVars, llmVars, fnVars>>

-----------------------------------------------------------------------------
(* StateManager: the file protocol *)

state_file == "agent_state.json"

\* the main thread, as a holder of self._lock (timer threads are 1, 2, ...)
MainThread == 0

\* fault: a state manager that takes no lock
acquire_unlocked(owner) == TRUE

\* self._lock (an RLock) can be taken by the thread owner
can_acquire(owner) == lock = None \/ lock = Some(owner)

\* fault: a save_state that writes the state file in place
write_in_place == "agent_state.json"

\* self.state_file.with_suffix('.tmp')
temp_file == "agent_state.tmp"

Paths == {"agent_state.json", "agent_state.tmp"}

\* the AgentState _save_state builds (created_at and updated_at left out)
AgentState(s, ctx) ==
    [issue_number |-> ctx.issue_number, repo |-> ctx.repo,
     current_state |-> s, context |-> ctx]

\* IssueState.value, and IssueState(value): the member with that value
IssueStateValue(s) == [value |-> s]

IssueStateOf(v) == CHOOSE s \in IssueState : IssueStateValue(s) = v

\* datetime.isoformat and datetime.fromisoformat
isoformat(t) == [iso |-> t]

fromisoformat(text) == text.iso

_serialize_context(ctx) ==
    [ctx EXCEPT !.last_check_time =
                    IF @ = None THEN None ELSE Some(isoformat(@[1]))]

\* fault: a load that forgets the time of the last check
deserialize_without_time(data) == [data EXCEPT !.last_check_time = None]

_deserialize_context(data) ==
    [data EXCEPT !.last_check_time =
                     IF @ = None THEN None ELSE Some(fromisoformat(@[1]))]

\* the state_dict save_state dumps
state_dict(st) ==
    [issue_number |-> st.issue_number,
     repo |-> st.repo,
     current_state |-> IssueStateValue(st.current_state),
     context |-> _serialize_context(st.context)]

\* the AgentState load_state builds from a state_dict
from_state_dict(d) ==
    [issue_number |-> d.issue_number,
     repo |-> d.repo,
     current_state |-> IssueStateOf(d.current_state),
     context |-> _deserialize_context(d.context)]

\* a file holding the JSON text of state st: just opened for writing (empty),
\* written in part, or written in full
FileOf(st, part) == Some([data |-> state_dict(st), part |-> part])

\* Path.rename: atomic replacement of the target
Rename(fs, from, to) ==
    IF from = to THEN fs ELSE [fs EXCEPT ![to] = fs[from], ![from] = None]

\* load_state without its assignment to self._current_state: None when the
\* file is absent or json.load raises, else the AgentState of its text
ParseStateFile(fs) ==
    IF fs[state_file] = None THEN None
    ELSE IF fs[state_file][1].part # "complete" THEN None
    ELSE Some(from_state_dict(fs[state_file][1].data))

\* save_state run to its return True
SavedFiles(fs, st) ==
    Rename([fs EXCEPT ![temp_file] = FileOf(st, "complete")], temp_file, state_file)

\* the save_state call of the controller, which completes
SaveState(st) ==
    /\ files' = SavedFiles(files, st)
    /\ sm_current' = Some(st)
    /\ last_saved' = Some(st)
    /\ UNCHANGED <<sm_pc, sm_arg, loaded, lock>>

-----------------------------------------------------------------------------
(* IssueFixingAgent: the state actions *)

PRNumbers == {101, 102}

TestsFound == {<<>>, <<"test_a">>}

CommentsFound == {<<>>, <<"comment_1">>}

\* _fix_issue up to its first call that can fail
fix_issue_begin(ctx) ==
    [ctx EXCEPT !.fix_attempt_count = @ + 1,
                !.branch_name = Some(ctx.fix_attempt_count + 1)]

\* fault: an _address_reviews that does not count its attempt
address_reviews_uncounted(ctx) == ctx

\* _address_reviews up to its first call that can fail
address_reviews_begin(ctx) == [ctx EXCEPT !.fix_attempt_count = @ + 1]

\* fault: an _address_reviews that clears the review comments only
address_reviews_keeping_tests(ctx) == [ctx EXCEPT !.review_comments = <<>>]

\* _address_reviews from its last call that can fail to its return
address_reviews_end(ctx) ==
    [ctx EXCEPT !.review_comments = <<>>, !.failing_tests = <<>>]

\* _monitor_progress up to its first await
monitor_progress_begin(ctx, t) == [ctx EXCEPT !.last_check_time = Some(t)]

\* what the action of state s does before it first awaits or fails
ActionBegin(s, ctx, t) ==
    CASE s = FIXING -> fix_issue_begin(ctx)
      [] s = ADDRESSING_REVIEWS -> address_reviews_begin(ctx)
      [] s = MONITORING -> monitor_progress_begin(ctx, t)
      [] OTHER -> ctx

\* what the action of state s does from there to its return
ActionEnd(s, ctx, dry, pr, tests, comments) ==
    CASE s = FETCHING -> [ctx EXCEPT !.issue_data = Some("issue")]
      [] s = ANALYZING -> [ctx EXCEPT !.metadata = @ \cup {"analysis"}]
      [] s = FIXING ->
           [ctx EXCEPT !.generated_files = IF dry THEN @ ELSE <<"fix.py">>]
      [] s = CREATING_PR ->
           [ctx EXCEPT !.pr_number = IF dry THEN Some(DryRunPR) ELSE Some(pr)]
      [] s = MONITORING ->
           [ctx EXCEPT !.failing_tests = tests, !.review_comments = comments]
      [] s = ADDRESSING_REVIEWS -> address_reviews_end(ctx)
      [] OTHER -> ctx

\* the states _execute_current_state has a handler for
HasHandler(s) ==
    s \in {FETCHING, ANALYZING, FIXING, CREATING_PR, MONITORING,
           ADDRESSING_REVIEWS}

\* whether the action of state s can raise
MayRaise(s, ctx, dry) ==
    CASE s = FETCHING -> TRUE
      [] s = ANALYZING -> ctx.issue_data = None
      [] s = FIXING -> ~dry
      [] s = CREATING_PR -> ~dry
      [] s = ADDRESSING_REVIEWS -> TRUE
      [] OTHER -> FALSE

\* whether it can return
MayReturn(s, ctx) == s = ANALYZING => ctx.issue_data # None

\* whether the action suspends at an await, where another task can run
HasAwait(s, dry) ==
    CASE s = FETCHING -> TRUE
      [] s = ANALYZING -> TRUE
      [] s = FIXING -> ~dry
      [] s = CREATING_PR -> ~dry
      [] s = MONITORING -> TRUE
      [] OTHER -> FALSE

\* the calls that change the repository, the working tree or GitHub
RepositoryCalls ==
    {"create_branch", "_run_claude_cli_fix", "_run_claude_cli_review_fix",
     "commit_changes", "push_branch", "os.remove", "git rm --cached",
     "create_pull_request"}

\* fault: state actions that do not look at self.dry_run
calls_ignoring_dry_run(s, dry) ==
    CASE s = FIXING ->
           {"create_branch", "_run_claude_cli_fix", "os.remove",
            "git rm --cached", "commit_changes"}
      [] s = CREATING_PR -> {"push_branch", "create_pull_request"}
      [] s = ADDRESSING_REVIEWS ->
           {"checkout_branch", "_run_claude_cli_review_fix",
            "commit_changes", "push_branch"}
      [] OTHER -> {}

\* the calls the action of state s can have made when it returns or raises:
\* every call of _fix_issue, _validate_and_cleanup_files and
\* _create_pull_request stands behind a test of self.dry_run;
\* _address_reviews checks the branch out before it tests it
Calls(s, dry) ==
    CASE s = FIXING ->
           IF dry THEN {}
           ELSE {"create_branch", "_run_claude_cli_fix", "os.remove",
                 "git rm --cached", "commit_changes"}
      [] s = CREATING_PR ->
           IF dry THEN {} ELSE {"push_branch", "create_pull_request"}
      [] s = ADDRESSING_REVIEWS ->
           {"checkout_branch"} \cup
           (IF dry THEN {}
            ELSE {"_run_claude_cli_review_fix", "commit_changes",
                  "push_branch"})
      [] OTHER -> {}

\* fault: a resume() that re-enters at CREATING_PR whenever the issue is
\* known
resume_creating_pr(ctx) ==
    IF ctx.issue_data # None THEN CREATING_PR ELSE FETCHING

\* the re-entry state resume() selects
ResumeState(ctx) ==
    IF ctx.pr_number # None THEN MONITORING
    ELSE IF ctx.issue_data # None THEN FIXING
    ELSE FETCHING

\* _save_state
save_state(s, ctx) ==
    IF s # NoState
    THEN SaveState(AgentState(s, ctx))
    ELSE UNCHANGED smVars

\* Timer.cancel() on self._backup_timer: no effect once the timer has fired
Cancel(tm, bt) ==
    IF bt # None /\ tm[bt[1]] = "armed"
    THEN [tm EXCEPT ![bt[1]] = "cancelled"]
    ELSE tm

\* the names start_server is called with
Servers == {"github", "pytorch_hud"}

\* the variables of the manager's requests, which the agent's actions leave
\* alone: the traffic of their tool calls is the subject of SpecMCP and
\* SpecMCPLife
mcpTraffic == <<request_id, pending_requests, call, future, issued>>

\* stop_auto_backup
stop_auto_backup ==
    /\ timer' = Cancel(timer, backup_timer)
    /\ backup_timer' = None
    /\ auto_stopped' = TRUE
    /\ UNCHANGED <<bk_buf, backups>>

\* stop_all: every registered server is stopped as stop_server stops it
stop_all ==
    /\ servers' = {}
    /\ server_in' = [s \in Servers |-> IF s \in servers THEN {} ELSE server_in[s]]
    /\ server_out' = [s \in Servers |->
                         IF s \in servers /\ server_out[s] # <<>>
                         THEN <<Head(server_out[s])>> ELSE server_out[s]]
    /\ UNCHANGED mcpTraffic

\* fault: a cleanup that leaves the servers running
cleanup_without_stop_all == stop_auto_backup /\ UNCHANGED mcpVars

\* _cleanup
_cleanup == stop_auto_backup /\ stop_all

-----------------------------------------------------------------------------
(* IssueFixingAgent: run(), pause(), resume() *)

\* run() is called: it awaits _initialize and the repository prerequisites
RunStart ==
    /\ pc = "idle"
    /\ pc' = "init"
    /\ resuming' = FALSE
    /\ UNCHANGED <<current_state, context, running, dry_run, executing, now,
                   interventions, fix_runs>>
    /\ UNCHANGED effects
    /\ UNCHANGED <<smVars, engVars, mcpVars, bkVars, llmVars, fnVars>>

\* _initialize or a prerequisite raises: run()'s except Exception and finally
RunInitFail ==
    /\ pc = "init"
    /\ LET ctx == IF current_state # NoState
                  THEN [context EXCEPT
                            !.error_history = Append(@, "Agent crash")]
                  ELSE context
       IN  /\ context' = ctx
           /\ save_state(current_state, ctx)
    /\ pc' = "crashed"
    /\ UNCHANGED <<current_state, running, dry_run, executing, now,
                   interventions, fix_runs, resuming>>
    /\ _cleanup
    /\ UNCHANGED effects
    /\ UNCHANGED <<engVars, llmVars, fnVars>>

\* fault: a run that resumes from the state file of any issue
adopt_any_issue(existing_state) ==
    IF existing_state # None
    THEN [current_state |-> existing_state[1].current_state,
          context |-> existing_state[1].context]
    ELSE [current_state |-> FETCHING, context |-> NewContext]

\* _load_or_create_state: the state and the context run() starts from, given
\* what load_state returned
_load_or_create_state(existing_state) ==
    IF /\ existing_state # None
       /\ existing_state[1].issue_number = issue_number
    THEN [current_state |-> existing_state[1].current_state,
          context |-> existing_state[1].context]
    ELSE [current_state |-> FETCHING, context |-> NewContext]

\* _load_or_create_state, then self.running = True. load_state keeps what
\* it returns in self._current_state
RunLoad ==
    /\ pc = "init"
    /\ LET existing_state == ParseStateFile(files)
           start == _load_or_create_state(existing_state)
       IN  /\ current_state' = start.current_state
           /\ context' = start.context
           /\ sm_current' = IF existing_state # None
                            THEN existing_state ELSE sm_current
           /\ loaded' = existing_state
    /\ running' = TRUE
    /\ pc' = "head"
    /\ UNCHANGED <<dry_run, executing, now, interventions, fix_runs, resuming>>
    /\ UNCHANGED <<files, sm_pc, sm_arg, last_saved, lock>>
    /\ servers' \in {{"github"}, Servers}
    /\ UNCHANGED <<mcpTraffic, server_in, server_out>>
    /\ UNCHANGED effects
    /\ UNCHANGED <<engVars, bkVars, llmVars, fnVars>>

\* the while condition of run(), evaluated after the load and after every
\* asyncio.sleep(1); then either _execute_current_state up to the action's
\* first await, or the end of run() and its _cleanup
LoopHead ==
    /\ pc \in {"head", "sleep"}
    /\ IF running /\ ~is_terminal_state(current_state)
       THEN /\ executing' = current_state
            /\ context' = ActionBegin(current_state, context, now)
            /\ fix_runs' = IF /\ current_state \in {FIXING, ADDRESSING_REVIEWS}
                              /\ fix_runs <= max_attempts
                           THEN fix_runs + 1 ELSE fix_runs
            /\ resuming' = (resuming /\ ~HasHandler(current_state))
            /\ pc' = "await"
            /\ UNCHANGED <<mcpVars, bkVars>>
       ELSE /\ pc' = "stopped"
            /\ _cleanup
            /\ UNCHANGED <<executing, context, fix_runs, resuming>>
    /\ UNCHANGED <<current_state, running, dry_run, now, interventions>>
    /\ UNCHANGED effects
    /\ UNCHANGED <<smVars, engVars, llmVars, fnVars>>

\* the action returns; _transition_to_next_state; then _save_state and the
\* asyncio.sleep(1), or first the monitoring wait
ExecReturn(prs, testsFound, commentsFound) ==
    /\ pc = "await"
    /\ MayReturn(executing, context)
    /\ \E pr \in prs, tests \in testsFound, comments \in commentsFound :
         LET ctx == ActionEnd(executing, context, dry_run, pr, tests, comments)
             next_state == get_next_state(current_state, ctx, now)
         IN  /\ context' = ctx
             /\ effects' = effects \cup Calls(executing, dry_run)
             /\ IF next_state # NoState /\ next_state # current_state
                THEN /\ current_state' = next_state
                     /\ save_state(next_state, ctx)
                     /\ pc' = "sleep"
                ELSE IF current_state = MONITORING
                        /\ get_time_until_next_check(ctx, now) > 0
                THEN /\ pc' = "wait"
                     /\ UNCHANGED current_state
                     /\ UNCHANGED smVars
                ELSE /\ save_state(current_state, ctx)
                     /\ pc' = "sleep"
                     /\ UNCHANGED current_state
    /\ UNCHANGED <<running, dry_run, executing, now, interventions, fix_runs,
                   resuming>>
    /\ UNCHANGED <<engVars, mcpVars, bkVars, llmVars, fnVars>>

ExecFinish == ExecReturn(PRNumbers, TestsFound, CommentsFound)

\* the action raises: the except of _execute_current_state, then run()'s
\* except Exception (append, _save_state, re-raise) and finally (_cleanup)
ExecRaise ==
    /\ pc = "await"
    /\ MayRaise(executing, context, dry_run)
    /\ LET ctx == [context EXCEPT
                      !.error_history = @ \o <<current_state, "Agent crash">>]
       IN  /\ context' = ctx
           /\ save_state(current_state, ctx)
    /\ effects' = effects \cup Calls(executing, dry_run)
    /\ pc' = "crashed"
    /\ UNCHANGED <<current_state, running, dry_run, executing, now,
                   interventions, fix_runs, resuming>>
    /\ _cleanup
    /\ UNCHANGED <<engVars, llmVars, fnVars>>

\* the asyncio.sleep(min(wait_time, 300)) of _transition_to_next_state is
\* over: the clock has advanced by the sleep at least; then _save_state
WaitDone ==
    /\ pc = "wait"
    /\ \E d \in Min(get_time_until_next_check(context, now), MaxSleep)..MaxTime :
         /\ now + d <= MaxTime
         /\ now' = now + d
    /\ save_state(current_state, context)
    /\ pc' = "sleep"
    /\ UNCHANGED <<current_state, context, running, dry_run, executing,
                   interventions, fix_runs, resuming>>
    /\ UNCHANGED effects
    /\ UNCHANGED <<engVars, mcpVars, bkVars, llmVars, fnVars>>

\* time passes while the run loop is suspended in an action or in its sleep
Tick ==
    /\ pc \in {"await", "sleep"}
    /\ now < MaxTime
    /\ now' = now + 1
    /\ UNCHANGED <<current_state, context, running, dry_run, pc, executing,
                   interventions, fix_runs, resuming>>
    /\ UNCHANGED effects
    /\ UNCHANGED <<smVars, engVars, mcpVars, bkVars, llmVars, fnVars>>

\* where another task can call into the agent: run() is suspended at an
\* await, or has ended, or has not been called
Suspended ==
    \/ pc \in {"idle", "init", "wait", "sleep", "stopped", "crashed"}
    \/ pc = "await" /\ HasAwait(executing, dry_run)

\* pause()
Pause ==
    /\ Suspended
    /\ interventions < MaxInterventions
    /\ interventions' = interventions + 1
    /\ running' = FALSE
    /\ IF current_state # NoState /\ current_state # PAUSED
       THEN /\ current_state' = PAUSED
            /\ save_state(PAUSED, context)
       ELSE /\ UNCHANGED current_state
            /\ UNCHANGED smVars
    /\ UNCHANGED <<context, dry_run, pc, executing, now, fix_runs, resuming>>
    /\ UNCHANGED effects
    /\ UNCHANGED <<engVars, mcpVars, bkVars, llmVars, fnVars>>

\* resume(), called while no run() of this agent is in progress
Resume ==
    /\ pc \in {"idle", "stopped", "crashed"}
    /\ interventions < MaxInterventions
    /\ interventions' = interventions + 1
    /\ IF current_state # PAUSED
       THEN UNCHANGED <<current_state, pc, resuming>>
       ELSE /\ current_state' = ResumeState(context)
            /\ resuming' = TRUE
            /\ pc' = "init"
    /\ UNCHANGED <<context, running, dry_run, executing, now, fix_runs>>
    /\ UNCHANGED effects
    /\ UNCHANGED <<smVars, engVars, mcpVars, bkVars, llmVars, fnVars>>

\* the process has ended and a new one is started on the same state file:
\* the constructor of IssueFixingAgent and of its StateManager
Restart ==
    /\ pc \in {"stopped", "crashed"}
    /\ interventions < MaxInterventions
    /\ interventions' = interventions + 1
    /\ current_state' = NoState
    /\ context' = NewContext
    /\ running' = FALSE
    /\ executing' = NoState
    /\ pc' = "idle"
    /\ sm_current' = None
    /\ resuming' = FALSE
    /\ UNCHANGED <<dry_run, now, fix_runs>>
    /\ UNCHANGED <<files, sm_pc, sm_arg, last_saved, loaded, lock>>
    /\ auto_stopped' = FALSE
    /\ UNCHANGED <<timer, backup_timer, bk_buf, backups>>
    /\ UNCHANGED effects
    /\ UNCHANGED <<engVars, mcpVars, llmVars, fnVars>>

-----------------------------------------------------------------------------
(* Initial states *)

SMInit ==
    /\ files = [p \in Paths |-> None]
    /\ sm_current = None
    /\ sm_pc = "idle"
    /\ sm_arg = None
    /\ last_saved = None
    /\ loaded = None
    /\ lock = None

\* the Timer objects that can be created
Timers == 1..MaxTimers

\* no routine is applied
FnOff ==
    /\ fn_pc = "off"
    /\ fn_in = None
    /\ fn_out = None

\* no request in progress
LLMOff ==
    /\ max_retries = MaxRetries
    /\ llm_pc = "off"
    /\ attempt = 0
    /\ llm_calls = 0
    /\ errors = <<>>
    /\ waits = <<>>
    /\ llm_text = None
    /\ raised = None

\* no backup timer was ever started
BkInit ==
    /\ timer = [t \in Timers |-> "unused"]
    /\ backup_timer = None
    /\ bk_buf = [t \in Timers |-> None]
    /\ backups = {}
    /\ auto_stopped = FALSE

EngIdle ==
    /\ eng_pc = "off"
    /\ eng_valid = <<>>
    /\ eng_next = NoState
    /\ eng_terminal = FALSE
    /\ eng_can = {}

\* the tasks that call call_tool
Callers == 1..MaxCallers

Arguments == {"a", "b"}

IdleCall == [pc |-> "idle", id |-> 0, server |-> "", method |-> "",
             arguments |-> "", response |-> None]

MCPInit ==
    /\ request_id = 0
    /\ issued = {}
    /\ servers = {}
    /\ pending_requests = <<>>
    /\ call = [c \in Callers |-> IdleCall]
    /\ future = [c \in Callers |-> None]
    /\ server_in = [s \in Servers |-> {}]
    /\ server_out = [s \in Servers |-> <<>>]

\* a freshly constructed agent, no state file
CtlInit ==
    /\ current_state = NoState
    /\ context = NewContext
    /\ running = FALSE
    /\ dry_run \in BOOLEAN
    /\ pc = "idle"
    /\ executing = NoState
    /\ now = 0
    /\ interventions = 0
    /\ fix_runs = 0
    /\ resuming = FALSE
    /\ effects = {}

Init == CtlInit /\ SMInit /\ EngIdle /\ MCPInit /\ BkInit /\ LLMOff /\ FnOff

Next ==
    \/ RunStart
    \/ RunInitFail
    \/ RunLoad
    \/ LoopHead
    \/ ExecFinish
    \/ ExecRaise
    \/ Pause
    \/ Resume
    \/ Restart

\* the controller with its operator: raising actions, pause(), resume(),
\* restarts
Spec == Init /\ [][Next]_vars

-----------------------------------------------------------------------------
(* The run loop left alone: no action raises, nobody calls pause() or       *)
(* resume(), the process is not restarted                                   *)

NextRun ==
    \/ RunStart
    \/ RunLoad
    \/ LoopHead
    \/ ExecFinish
    \/ Tick

\* the event loop keeps running the coroutine, and every awaited call returns
RunProgress == RunStart \/ RunLoad \/ LoopHead \/ ExecFinish

SpecRun == Init /\ [][NextRun]_vars /\ WF_vars(RunProgress)

-----------------------------------------------------------------------------
(* The run loop started on a state file that holds MONITORING, where every  *)
(* pass finds no failing test and no review comment                         *)

\* the contexts of the state file: the pull request number known or not
MonitoringContexts ==
    {[NewContext EXCEPT !.issue_data = Some("issue"),
                        !.branch_name = Some(1),
                        !.fix_attempt_count = 1,
                        !.pr_number = p,
                        !.last_check_time = lc] :
        p \in {None} \cup {Some(n) : n \in PRNumbers},
        lc \in {None, Some(0)}}

InitMonitor ==
    /\ CtlInit
    /\ \E ctx \in MonitoringContexts :
         /\ files = [p \in Paths |->
                        IF p = state_file
                        THEN FileOf(AgentState(MONITORING, ctx), "complete")
                        ELSE None]
         /\ last_saved = Some(AgentState(MONITORING, ctx))
    /\ sm_current = None
    /\ sm_pc = "idle"
    /\ sm_arg = None
    /\ loaded = None
    /\ lock = None
    /\ BkInit
    /\ LLMOff
    /\ FnOff
    /\ EngIdle
    /\ MCPInit

ExecQuiet == ExecReturn(PRNumbers, {<<>>}, {<<>>})

NextMonitor ==
    \/ RunStart
    \/ RunLoad
    \/ LoopHead
    \/ ExecQuiet
    \/ WaitDone
    \/ Tick

SpecMonitor == InitMonitor /\ [][NextMonitor]_vars

-----------------------------------------------------------------------------
(* The workflow engine applied to any state and context *)

EngineContexts ==
    {[NewContext EXCEPT !.fix_attempt_count = n,
                        !.pr_number = p,
                        !.failing_tests = ft,
                        !.review_comments = rc,
                        !.last_check_time = lc] :
        n \in 0..(max_attempts + 1),
        p \in {None} \cup {Some(k) : k \in PRNumbers},
        ft \in TestsFound,
        rc \in CommentsFound,
        lc \in {None} \cup {Some(t) : t \in 0..MaxTime}}

InitEngine ==
    /\ current_state \in IssueState
    /\ context \in EngineContexts
    /\ now \in 0..MaxTime
    /\ running = FALSE
    /\ dry_run = FALSE
    /\ pc = "off"
    /\ executing = NoState
    /\ interventions = 0
    /\ fix_runs = 0
    /\ resuming = FALSE
    /\ effects = {}
    /\ SMInit
    /\ eng_pc = "input"
    /\ eng_valid = <<>>
    /\ eng_next = NoState
    /\ eng_terminal = FALSE
    /\ eng_can = {}
    /\ MCPInit
    /\ BkInit
    /\ LLMOff
    /\ FnOff

\* get_valid_transitions, get_next_state, is_terminal_state and
\* can_transition_to (for every target) are called
ApplyEngine ==
    /\ eng_pc = "input"
    /\ eng_valid' = get_valid_transitions(current_state, context)
    /\ eng_next' = get_next_state(current_state, context, now)
    /\ eng_terminal' = is_terminal_state(current_state)
    /\ eng_can' = {target \in IssueState :
                       can_transition_to(current_state, target, context)}
    /\ eng_pc' = "done"
    /\ UNCHANGED <<ctlVars, smVars, mcpVars, bkVars, llmVars, fnVars>>

NextEngine == ApplyEngine

SpecEngine == InitEngine /\ [][NextEngine]_vars

-----------------------------------------------------------------------------
(* StateManager: save_state step by step, load_state, clear_state, and a    *)
(* process that dies at any point                                           *)

\* states handed to save_state
SavedStates ==
    {AgentState(FETCHING, NewContext),
     AgentState(FIXING,
                [NewContext EXCEPT !.issue_data = Some("issue"),
                                   !.fix_attempt_count = 2,
                                   !.branch_name = Some(2),
                                   !.generated_files = <<"fix.py">>,
                                   !.error_history = <<FIXING, "Agent crash">>,
                                   !.metadata = {"analysis"}]),
     AgentState(MONITORING,
                [NewContext EXCEPT !.issue_data = Some("issue"),
                                   !.fix_attempt_count = 1,
                                   !.branch_name = Some(1),
                                   !.pr_number = Some(101),
                                   !.last_check_time = Some(1),
                                   !.failing_tests = <<"test_a">>,
                                   !.review_comments = <<"comment_1">>,
                                   !.metadata = {"analysis"}])}

\* no call into the state manager is in progress
SMReady == sm_pc \in {"idle", "loaded"}

\* save_state is called: self._current_state = state, then the state_dict
SaveBegin ==
    /\ SMReady
    /\ can_acquire(MainThread)
    /\ lock' = Some(MainThread)
    /\ \E st \in SavedStates :
         /\ sm_arg' = Some(st)
         /\ sm_current' = Some(st)
    /\ sm_pc' = "open"
    /\ UNCHANGED <<files, last_saved, loaded>>
    /\ UNCHANGED <<ctlVars, engVars, mcpVars, bkVars, llmVars, fnVars>>

\* open(temp_file, 'w'): the temporary file exists and is empty
SaveOpen ==
    /\ sm_pc = "open"
    /\ files' = [files EXCEPT ![temp_file] = FileOf(sm_arg[1], "empty")]
    /\ sm_pc' = "write"
    /\ UNCHANGED <<sm_current, sm_arg, last_saved, loaded, lock>>
    /\ UNCHANGED <<ctlVars, engVars, mcpVars, bkVars, llmVars, fnVars>>

\* json.dump has written a part of the text
SaveWrite ==
    /\ sm_pc = "write"
    /\ files' = [files EXCEPT ![temp_file] = FileOf(sm_arg[1], "partial")]
    /\ sm_pc' = "close"
    /\ UNCHANGED <<sm_current, sm_arg, last_saved, loaded, lock>>
    /\ UNCHANGED <<ctlVars, engVars, mcpVars, bkVars, llmVars, fnVars>>

\* json.dump has written the rest and the with block has closed the file
SaveClose ==
    /\ sm_pc = "close"
    /\ files' = [files EXCEPT ![temp_file] = FileOf(sm_arg[1], "complete")]
    /\ sm_pc' = "rename"
    /\ UNCHANGED <<sm_current, sm_arg, last_saved, loaded, lock>>
    /\ UNCHANGED <<ctlVars, engVars, mcpVars, bkVars, llmVars, fnVars>>

\* temp_file.rename(self.state_file); return True
SaveRename ==
    /\ sm_pc = "rename"
    /\ files' = Rename(files, temp_file, state_file)
    /\ last_saved' = sm_arg
    /\ sm_pc' = "idle"
    /\ sm_arg' = None
    /\ lock' = None
    /\ UNCHANGED <<sm_current, loaded>>
    /\ UNCHANGED <<ctlVars, engVars, mcpVars, bkVars, llmVars, fnVars>>

\* open, json.dump or rename raises: except Exception, return False
SaveFail ==
    /\ sm_pc \in {"open", "write", "close", "rename"}
    /\ sm_pc' = "idle"
    /\ sm_arg' = None
    /\ lock' = None
    /\ UNCHANGED <<files, sm_current, last_saved, loaded>>
    /\ UNCHANGED <<ctlVars, engVars, mcpVars, bkVars, llmVars, fnVars>>

\* the process dies and a new StateManager is constructed on the same path
Crash ==
    /\ sm_pc' = "idle"
    /\ sm_arg' = None
    /\ sm_current' = None
    /\ loaded' = None
    /\ lock' = None
    /\ UNCHANGED <<files, last_saved>>
    /\ UNCHANGED <<ctlVars, engVars, mcpVars, bkVars, llmVars, fnVars>>

\* load_state
LoadState ==
    /\ SMReady
    /\ can_acquire(MainThread)
    /\ loaded' = ParseStateFile(files)
    /\ sm_current' = IF ParseStateFile(files) # None
                     THEN ParseStateFile(files) ELSE sm_current
    /\ sm_pc' = "loaded"
    /\ UNCHANGED <<files, sm_arg, last_saved, lock>>
    /\ UNCHANGED <<ctlVars, engVars, mcpVars, bkVars, llmVars, fnVars>>

\* clear_state
ClearState ==
    /\ SMReady
    /\ can_acquire(MainThread)
    /\ files' = [files EXCEPT ![state_file] = None]
    /\ sm_current' = None
    /\ last_saved' = None
    /\ sm_pc' = "idle"
    /\ UNCHANGED <<sm_arg, loaded, lock>>
    /\ UNCHANGED <<ctlVars, engVars, mcpVars, bkVars, llmVars, fnVars>>

\* an agent that is constructed and never run
CtlOff ==
    /\ current_state = NoState
    /\ context = NewContext
    /\ running = FALSE
    /\ dry_run = FALSE
    /\ pc = "off"
    /\ executing = NoState
    /\ now = 0
    /\ interventions = 0
    /\ fix_runs = 0
    /\ resuming = FALSE
    /\ effects = {}

InitSM == CtlOff /\ SMInit /\ EngIdle /\ MCPInit /\ BkInit /\ LLMOff /\ FnOff

NextSM ==
    \/ SaveBegin
    \/ SaveOpen
    \/ SaveWrite
    \/ SaveClose
    \/ SaveRename
    \/ SaveFail
    \/ Crash
    \/ LoadState
    \/ ClearState

SpecSM == InitSM /\ [][NextSM]_vars

-----------------------------------------------------------------------------
(* StateManager: the backup timer. Every threading.Timer runs its callback  *)
(* on a thread of its own; a timer is "unused" until it is created, then     *)
(* "armed", then "cancelled" or, once it has fired, at a point of            *)
(* _perform_backup: "fired", "read", "write", "resched", "done"              *)

\* the next Timer object
NewTimer ==
    CHOOSE t \in Timers :
        timer[t] = "unused" /\ \A u \in Timers : u < t => timer[u] # "unused"

\* start_auto_backup on the main thread (backup_interval > 0):
\* _schedule_backup cancels the current timer and arms a new one
StartAutoBackup ==
    /\ SMReady
    /\ \E t \in Timers : timer[t] = "unused"
    /\ timer' = [Cancel(timer, backup_timer) EXCEPT ![NewTimer] = "armed"]
    /\ backup_timer' = Some(NewTimer)
    /\ auto_stopped' = FALSE
    /\ UNCHANGED <<bk_buf, backups>>
    /\ UNCHANGED <<ctlVars, smVars, engVars, mcpVars, llmVars, fnVars>>

\* stop_auto_backup on the main thread
StopAutoBackup ==
    /\ SMReady
    /\ timer' = Cancel(timer, backup_timer)
    /\ backup_timer' = None
    /\ auto_stopped' = TRUE
    /\ UNCHANGED <<bk_buf, backups>>
    /\ UNCHANGED <<ctlVars, smVars, engVars, mcpVars, llmVars, fnVars>>

\* the interval of an armed timer is over: _perform_backup starts on the
\* timer's thread
TimerFire(t) ==
    /\ timer[t] = "armed"
    /\ timer' = [timer EXCEPT ![t] = "fired"]
    /\ UNCHANGED <<backup_timer, bk_buf, backups, auto_stopped>>
    /\ UNCHANGED <<ctlVars, smVars, engVars, mcpVars, llmVars, fnVars>>

\* backup_state takes the lock; without a state file it returns at once
BackupBegin(t) ==
    /\ timer[t] = "fired"
    /\ can_acquire(t)
    /\ IF files[state_file] = None
       THEN /\ timer' = [timer EXCEPT ![t] = "resched"]
            /\ UNCHANGED lock
       ELSE /\ timer' = [timer EXCEPT ![t] = "read"]
            /\ lock' = Some(t)
    /\ UNCHANGED <<backup_timer, bk_buf, backups, auto_stopped>>
    /\ UNCHANGED <<files, sm_current, sm_pc, sm_arg, last_saved, loaded>>
    /\ UNCHANGED <<ctlVars, engVars, mcpVars, llmVars, fnVars>>

\* self.state_file.read_text()
BackupRead(t) ==
    /\ timer[t] = "read"
    /\ files[state_file] # None
    /\ bk_buf' = [bk_buf EXCEPT ![t] = files[state_file]]
    /\ timer' = [timer EXCEPT ![t] = "write"]
    /\ UNCHANGED <<backup_timer, backups, auto_stopped>>
    /\ UNCHANGED <<ctlVars, smVars, engVars, mcpVars, llmVars, fnVars>>

\* backup_file.write_text(...); the lock is released, backup_state returns
BackupWrite(t) ==
    /\ timer[t] = "write"
    /\ backups' = backups \cup {bk_buf[t][1]}
    /\ bk_buf' = [bk_buf EXCEPT ![t] = None]
    /\ timer' = [timer EXCEPT ![t] = "resched"]
    /\ lock' = None
    /\ UNCHANGED <<backup_timer, auto_stopped>>
    /\ UNCHANGED <<files, sm_current, sm_pc, sm_arg, last_saved, loaded>>
    /\ UNCHANGED <<ctlVars, engVars, mcpVars, llmVars, fnVars>>

\* the _schedule_backup that ends _perform_backup, on the timer's thread
Reschedule(t) ==
    /\ timer[t] = "resched"
    /\ \E u \in Timers : timer[u] = "unused"
    /\ timer' = [Cancel(timer, backup_timer) EXCEPT ![NewTimer] = "armed",
                                                    ![t] = "done"]
    /\ backup_timer' = Some(NewTimer)
    /\ UNCHANGED <<bk_buf, backups, auto_stopped>>
    /\ UNCHANGED <<ctlVars, smVars, engVars, mcpVars, llmVars, fnVars>>

TimerFireAny == \E t \in Timers : TimerFire(t)

BackupBeginAny == \E t \in Timers : BackupBegin(t)

BackupReadAny == \E t \in Timers : BackupRead(t)

BackupWriteAny == \E t \in Timers : BackupWrite(t)

RescheduleAny == \E t \in Timers : Reschedule(t)

NextBackup ==
    \/ SaveBegin
    \/ SaveOpen
    \/ SaveWrite
    \/ SaveClose
    \/ SaveRename
    \/ SaveFail
    \/ LoadState
    \/ ClearState
    \/ StartAutoBackup
    \/ StopAutoBackup
    \/ TimerFireAny
    \/ BackupBeginAny
    \/ BackupReadAny
    \/ BackupWriteAny
    \/ RescheduleAny

\* the main thread and the timer threads of one process
SpecBackup == InitSM /\ [][NextBackup]_vars

-----------------------------------------------------------------------------
(* MCPClientManager: start_server, stop_server, call_tool, list_tools and  *)
(* _handle_responses                                                        *)

\* fault: a handler that resolves the oldest pending future, whatever the id
\* of the response
OldestPending(pending, rid) == IF Len(pending) > 0 THEN 1 ELSE 0

\* the position in self._pending_requests of the entry with key rid, 0 if
\* rid is not a key
PendingIndex(pending, rid) ==
    IF \E i \in 1..Len(pending) : pending[i].id = rid
    THEN CHOOSE i \in 1..Len(pending) : pending[i].id = rid
    ELSE 0

\* fault: a timeout that leaves the id in the table
keep_pending(pending, rid) == pending

\* self._pending_requests.pop(rid, None)
PendingPop(pending, rid) == SelectSeq(pending, LAMBDA e : e.id # rid)

\* fault: a counter that starts again at 1 after MaxRequests
wrapping_request_id(n) == (n % MaxRequests) + 1

\* _get_next_request_id: the value of self._request_id after its increment
_get_next_request_id(n) == n + 1

\* the part call_tool, list_tools and _initialize_server share: the next
\* request id, the future registered under it, the request written to the
\* server's stdin; then the wait for the future
SendRequest(c, s, method, a) ==
    LET rid == _get_next_request_id(request_id)
    IN  /\ request_id' = rid
        /\ issued' = issued \cup {rid}
        /\ pending_requests' =
               Append(pending_requests, [id |-> rid, caller |-> c])
        /\ future' = [future EXCEPT ![c] = None]
        /\ server_in' = [server_in EXCEPT ![s] =
                             @ \cup {[id |-> rid, arguments |-> a]}]
        /\ call' = [call EXCEPT ![c] =
                        [pc |-> "waiting", id |-> rid, server |-> s,
                         method |-> method, arguments |-> a,
                         response |-> None]]

\* the caller is not inside a call
CallerFree(c) == call[c].pc \notin {"waiting", "cancelled"}

\* the task that makes the next call: the callers are interchangeable, the
\* free one of least number stands for all
NextCaller(c) == CallerFree(c) /\ \A d \in Callers : d < c => ~CallerFree(d)

\* call_tool up to its wait for the future; ValueError, and no request id,
\* when the server is not running
CallTool(c, s, a) ==
    /\ NextCaller(c)
    /\ request_id < RequestIdCap
    /\ IF s \in servers
       THEN /\ SendRequest(c, s, "tools/call", a)
            /\ UNCHANGED <<servers, server_out>>
       ELSE /\ call' = [call EXCEPT ![c] =
                            [IdleCall EXCEPT !.pc = "not_running",
                                             !.server = s]]
            /\ UNCHANGED <<request_id, issued, pending_requests, future,
                           servers, server_in, server_out>>
    /\ UNCHANGED <<ctlVars, smVars, engVars, bkVars, llmVars, fnVars>>

\* list_tools up to its wait for the future
ListTools(c, s) ==
    /\ NextCaller(c)
    /\ request_id < RequestIdCap
    /\ s \in servers
    /\ SendRequest(c, s, "tools/list", "tools")
    /\ UNCHANGED <<servers, server_out>>
    /\ UNCHANGED <<ctlVars, smVars, engVars, bkVars, llmVars, fnVars>>

\* start_server up to the wait of _initialize_server: the process is
\* created, the server registered, the initialize request sent
StartServer(c, s) ==
    /\ NextCaller(c)
    /\ request_id < RequestIdCap
    /\ s \notin servers
    /\ servers' = servers \cup {s}
    /\ SendRequest(c, s, "initialize", "init")
    /\ UNCHANGED server_out
    /\ UNCHANGED <<ctlVars, smVars, engVars, bkVars, llmVars, fnVars>>

\* stop_server: server.running = False, the process is terminated and the
\* server unregistered. The requests the process had not answered are lost;
\* the handler, which waits in readline, handles at most one more line
StopServer(s) ==
    /\ s \in servers
    /\ servers' = servers \ {s}
    /\ server_in' = [server_in EXCEPT ![s] = {}]
    /\ server_out' = [server_out EXCEPT ![s] =
                          IF @ = <<>> THEN <<>> ELSE <<Head(@)>>]
    /\ UNCHANGED <<request_id, issued, pending_requests, call, future>>
    /\ UNCHANGED <<ctlVars, smVars, engVars, bkVars, llmVars, fnVars>>

\* a server answers one of the requests it holds, in any order, with a
\* result or an error computed from the request
ServerRespond(s) ==
    /\ \E req \in server_in[s], kind \in {"result", "error"} :
         /\ server_in' = [server_in EXCEPT ![s] = @ \ {req}]
         /\ server_out' = [server_out EXCEPT ![s] =
                 Append(@, [id |-> req.id, kind |-> kind,
                            value |-> req.arguments])]
    /\ UNCHANGED <<request_id, issued, pending_requests, call, future, servers>>
    /\ UNCHANGED <<ctlVars, smVars, engVars, bkVars, llmVars, fnVars>>

\* one pass of the loop of _handle_responses(server): a line is read, and
\* the future registered under its id, if any, is popped and resolved. The
\* future keeps the whole response here, its id included. A future that
\* was cancelled by a timeout is popped too, but set_result raises
\* InvalidStateError on it, which the handler catches and logs.
HandleResponse(s) ==
    /\ server_out[s] # <<>>
    /\ LET response == Head(server_out[s])
           i == PendingIndex(pending_requests, response.id)
       IN  IF i # 0
           THEN LET c == pending_requests[i].caller
                IN  /\ future' =
                          IF /\ call[c].id = pending_requests[i].id
                             /\ call[c].pc = "waiting"
                             /\ future[c] = None
                          THEN [future EXCEPT ![c] = Some(response)]
                          ELSE future
                    /\ pending_requests' =
                          PendingPop(pending_requests, pending_requests[i].id)
           ELSE UNCHANGED <<future, pending_requests>>
    /\ server_out' = [server_out EXCEPT ![s] = Tail(@)]
    /\ UNCHANGED <<request_id, issued, call, server_in, servers>>
    /\ UNCHANGED <<ctlVars, smVars, engVars, bkVars, llmVars, fnVars>>

\* the caller wakes with its future resolved: the call returns the result,
\* or raises RuntimeError for an error response
CallReturn(c) ==
    /\ call[c].pc = "waiting"
    /\ future[c] # None
    /\ call' = [call EXCEPT ![c].pc = IF future[c][1].kind = "error"
                                      THEN "raised" ELSE "returned",
                            ![c].response = future[c]]
    /\ future' = [future EXCEPT ![c] = None]
    /\ pending_requests' = IF /\ future[c][1].kind = "error"
                              /\ call[c].method # "initialize"
                           THEN PendingPop(pending_requests, call[c].id)
                           ELSE pending_requests
    /\ UNCHANGED <<request_id, issued, server_in, server_out, servers>>
    /\ UNCHANGED <<ctlVars, smVars, engVars, bkVars, llmVars, fnVars>>

\* the timeout of asyncio.wait_for is over: the future is cancelled, which
\* the call's pc records
CallTimeout(c) ==
    /\ call[c].pc = "waiting"
    /\ future[c] = None
    /\ call' = [call EXCEPT ![c].pc = "cancelled"]
    /\ UNCHANGED <<request_id, issued, pending_requests, future, server_in,
                   server_out, servers>>
    /\ UNCHANGED <<ctlVars, smVars, engVars, bkVars, llmVars, fnVars>>

\* the caller wakes in its except clause: call_tool and list_tools pop the
\* id and raise TimeoutError; _initialize_server raises RuntimeError and
\* leaves the id in the table
TimeoutRaise(c) ==
    /\ call[c].pc = "cancelled"
    /\ pending_requests' = IF call[c].method = "initialize"
                           THEN pending_requests
                           ELSE PendingPop(pending_requests, call[c].id)
    /\ call' = [call EXCEPT ![c].pc = "timeout"]
    /\ UNCHANGED <<request_id, issued, future, server_in, server_out, servers>>
    /\ UNCHANGED <<ctlVars, smVars, engVars, bkVars, llmVars, fnVars>>

CallToolAny == \E c \in Callers, s \in Servers, a \in Arguments : CallTool(c, s, a)

ListToolsAny == \E c \in Callers, s \in Servers : ListTools(c, s)

StartServerAny == \E c \in Callers, s \in Servers : StartServer(c, s)

StopServerAny == \E s \in Servers : StopServer(s)

ServerRespondAny == \E s \in Servers : ServerRespond(s)

HandleResponseAny == \E s \in Servers : HandleResponse(s)

CallReturnAny == \E c \in Callers : CallReturn(c)

CallTimeoutAny == \E c \in Callers : CallTimeout(c)

TimeoutRaiseAny == \E c \in Callers : TimeoutRaise(c)

\* a manager whose start_all has returned True: both handshakes are over
MCPStarted ==
    /\ request_id = Cardinality(Servers)
    /\ issued = 1..Cardinality(Servers)
    /\ pending_requests = <<>>
    /\ call = [c \in Callers |-> IdleCall]
    /\ future = [c \in Callers |-> None]
    /\ servers = Servers
    /\ server_in = [s \in Servers |-> {}]
    /\ server_out = [s \in Servers |-> <<>>]

InitMCP == CtlOff /\ SMInit /\ EngIdle /\ MCPStarted /\ BkInit /\ LLMOff /\ FnOff

NextMCP ==
    \/ CallToolAny
    \/ ServerRespondAny
    \/ HandleResponseAny
    \/ CallReturnAny
    \/ CallTimeoutAny
    \/ TimeoutRaiseAny

\* concurrent call_tool callers of a started manager
SpecMCP == InitMCP /\ [][NextMCP]_vars

\* no call is in progress: the agent awaits each call before the next one.
\* At most LifeIdCap requests are made in one behaviour
Sequential == request_id < LifeIdCap /\ \A c \in Callers : CallerFree(c)

SeqStartServer == Sequential /\ StartServerAny

SeqCallTool == Sequential /\ CallToolAny

SeqListTools == Sequential /\ ListToolsAny

InitMCPLife == CtlOff /\ SMInit /\ EngIdle /\ MCPInit /\ BkInit /\ LLMOff /\ FnOff

NextMCPLife ==
    \/ SeqStartServer
    \/ SeqCallTool
    \/ SeqListTools
    \/ StopServerAny
    \/ ServerRespondAny
    \/ HandleResponseAny
    \/ CallReturnAny
    \/ CallTimeoutAny
    \/ TimeoutRaiseAny

\* a manager from its construction on, driven by one task as the agent
\* drives it: servers started, called, stopped and started again
SpecMCPLife == InitMCPLife /\ [][NextMCPLife]_vars

-----------------------------------------------------------------------------
(* ClaudeClient._make_request *)

\* the errors an attempt can raise: the three classes of the client library
\* the routine names, the ValueError of an empty response, any other one
ErrorKinds ==
    {"RateLimitError", "APIError", "APIConnectionError", "ValueError",
     "Exception"}

\* the classes an error is an instance of: in the client library
\* RateLimitError and APIConnectionError derive from APIError
Bases(e) ==
    CASE e = "RateLimitError" -> {"RateLimitError", "APIError", "Exception"}
      [] e = "APIConnectionError" ->
            {"APIConnectionError", "APIError", "Exception"}
      [] e = "APIError" -> {"APIError", "Exception"}
      [] e = "ValueError" -> {"ValueError", "Exception"}
      [] OTHER -> {"Exception"}

\* the except clauses of the try statement, in the order they are written
except_clauses ==
    <<"RateLimitError", "APIError", "APIConnectionError", "Exception">>

\* Python runs the first clause whose class the error is an instance of
Handler(e) ==
    LET i == CHOOSE k \in 1..Len(except_clauses) :
                 /\ except_clauses[k] \in Bases(e)
                 /\ \A j \in 1..(k - 1) : except_clauses[j] \notin Bases(e)
    IN  except_clauses[i]

RECURSIVE Pow2(_)

Pow2(a) == IF a = 0 THEN 1 ELSE 2 * Pow2(a - 1)

\* the argument of asyncio.sleep in each clause
Delay(clause, a) ==
    CASE clause = "RateLimitError" -> retry_delay * Pow2(a)
      [] clause = "APIConnectionError" -> retry_delay * 2
      [] OTHER -> retry_delay

\* a failed attempt sleeps and goes on while attempt < max_retries - 1
retry_after_every_attempt(a, n) == a < n

retries_left(a, n) == a < n - 1

\* what messages.create does: a text, an empty content, or an error
Outcomes == {"text", "empty"} \cup (ErrorKinds \ {"ValueError"})

\* _make_request is called: range(max_retries) is empty or gives attempt 0
MakeRequest ==
    /\ llm_pc = "idle"
    /\ IF max_retries = 0
       THEN /\ llm_pc' = "raised"
            /\ raised' = Some("RuntimeError")
       ELSE /\ llm_pc' = "call"
            /\ UNCHANGED raised
    /\ attempt' = 0
    /\ UNCHANGED <<max_retries, llm_calls, errors, waits, llm_text>>
    /\ UNCHANGED <<ctlVars, smVars, engVars, mcpVars, bkVars, fnVars>>

\* await self.client.messages.create(**kwargs) is over: return of the text,
\* or the except clause of the error up to its sleep or its raise
Complete(o) ==
    /\ llm_pc = "call"
    /\ llm_calls' = llm_calls + 1
    /\ IF o = "text"
       THEN /\ llm_text' = Some("text")
            /\ llm_pc' = "returned"
            /\ UNCHANGED <<errors, waits, raised>>
       ELSE LET e == IF o = "empty" THEN "ValueError" ELSE o
            IN  /\ errors' = Append(errors, e)
                /\ IF retries_left(attempt, max_retries)
                   THEN /\ waits' = Append(waits,
                                [error |-> e, attempt |-> attempt,
                                 delay |-> Delay(Handler(e), attempt)])
                        /\ llm_pc' = "sleep"
                        /\ UNCHANGED raised
                   ELSE /\ raised' = Some(e)
                        /\ llm_pc' = "raised"
                        /\ UNCHANGED waits
                /\ UNCHANGED llm_text
    /\ UNCHANGED <<max_retries, attempt>>
    /\ UNCHANGED <<ctlVars, smVars, engVars, mcpVars, bkVars, fnVars>>

\* asyncio.sleep is over: the next attempt of the loop, or after the last
\* one the raise that follows the loop
SleepDone ==
    /\ llm_pc = "sleep"
    /\ IF attempt + 1 < max_retries
       THEN /\ attempt' = attempt + 1
            /\ llm_pc' = "call"
            /\ UNCHANGED raised
       ELSE /\ raised' = Some("RuntimeError")
            /\ llm_pc' = "raised"
            /\ UNCHANGED attempt
    /\ UNCHANGED <<max_retries, llm_calls, errors, waits, llm_text>>
    /\ UNCHANGED <<ctlVars, smVars, engVars, mcpVars, bkVars, fnVars>>

CompleteAny == \E o \in Outcomes : Complete(o)

\* one _make_request call under any configured max_retries
InitLLM ==
    /\ CtlOff /\ SMInit /\ EngIdle /\ MCPInit /\ BkInit /\ FnOff
    /\ max_retries \in 0..MaxRetries
    /\ llm_pc = "idle"
    /\ attempt = 0
    /\ llm_calls = 0
    /\ errors = <<>>
    /\ waits = <<>>
    /\ llm_text = None
    /\ raised = None

NextLLM ==
    \/ MakeRequest
    \/ CompleteAny
    \/ SleepDone

SpecLLM == InitLLM /\ [][NextLLM]_vars

-----------------------------------------------------------------------------
(* ClaudeClient.analyze_issue and generate_pr_description *)

\* dict.get(key, default)
Get(d, key, default) == IF key \in DOMAIN d THEN d[key] ELSE default

\* the issue as a flat dict, and in the shape _fetch_issue stores in
\* context.issue_data: {"issue": ..., "comments": [...]}
FlatIssue == [number |-> ToString(issue_number), title |-> "title"]

NestedIssue == [issue |-> FlatIssue, comments |-> <<>>]

\* the text of a successful completion: a JSON object with fields, the
\* empty JSON object, or text in which no JSON is found
TextKinds == {"object", "empty_object", "prose"}

\* the object a parsable response holds, for each of the two routines
ParsedObject(routine) ==
    IF routine = "analyze_issue"
    THEN [category |-> "bug", complexity |-> "low", search_terms |-> <<"term">>]
    ELSE [title |-> <<"Fix a bug">>, body |-> "Fixes the bug."]

\* _parse_json_response: the object, or None when no JSON is found
_parse_json_response(kind, routine) ==
    CASE kind = "object" -> Some(ParsedObject(routine))
      [] kind = "empty_object" -> Some(<<>>)
      [] OTHER -> None

\* not x, for the value _parse_json_response returned
Falsy(parsed) == parsed = None \/ DOMAIN parsed[1] = {}

\* the fallback of analyze_issue
AnalysisFallback ==
    [category |-> "unknown", complexity |-> "medium", search_terms |-> <<>>]

\* the fallback of generate_pr_description: f"Fix issue #{issue_data.get(
\* 'number', 'unknown')}"
PRFallback(issue_data) ==
    [title |-> <<"Fix issue #", Get(issue_data, "number", "unknown")>>,
     body |-> "Automated fix for PyTorch issue."]

\* analyze_issue, given how _make_request ended and the text it returned
analyze_issue(failed, kind) ==
    IF failed \/ Falsy(_parse_json_response(kind, "analyze_issue"))
    THEN AnalysisFallback
    ELSE _parse_json_response(kind, "analyze_issue")[1]

\* generate_pr_description
generate_pr_description(issue_data, failed, kind) ==
    IF failed \/ Falsy(_parse_json_response(kind, "generate_pr_description"))
    THEN PRFallback(issue_data)
    ELSE _parse_json_response(kind, "generate_pr_description")[1]

\* the routine that awaited _make_request goes on after it: with its except
\* clause if _make_request raised, else with the parse of the text
RoutineReturn(kind) ==
    /\ fn_pc = "input"
    /\ llm_pc \in {"returned", "raised"}
    /\ llm_pc = "raised" => kind = "prose"
    /\ fn_out' = Some([value |->
                          IF fn_in[1].routine = "analyze_issue"
                          THEN analyze_issue(llm_pc = "raised", kind)
                          ELSE generate_pr_description(fn_in[1].issue_data,
                                                       llm_pc = "raised", kind),
                       raised |-> FALSE,
                       parsed |-> (llm_pc = "returned"
                                   /\ _parse_json_response(kind, fn_in[1].routine) # None)])
    /\ fn_pc' = "done"
    /\ UNCHANGED fn_in
    /\ UNCHANGED <<ctlVars, smVars, engVars, mcpVars, bkVars, llmVars>>

RoutineReturnAny == \E kind \in TextKinds : RoutineReturn(kind)

\* one call of either routine, with the issue in either shape
InitClaude ==
    /\ CtlOff /\ SMInit /\ EngIdle /\ MCPInit /\ BkInit
    /\ max_retries \in 0..MaxRetries
    /\ llm_pc = "idle"
    /\ attempt = 0
    /\ llm_calls = 0
    /\ errors = <<>>
    /\ waits = <<>>
    /\ llm_text = None
    /\ raised = None
    /\ fn_pc = "input"
    /\ fn_in \in {Some([routine |-> r, issue_data |-> d]) :
                    r \in {"analyze_issue", "generate_pr_description"},
                    d \in {FlatIssue, NestedIssue}}
    /\ fn_out = None

NextClaude ==
    \/ MakeRequest
    \/ CompleteAny
    \/ SleepDone
    \/ RoutineReturnAny

SpecClaude == InitClaude /\ [][NextClaude]_vars

-----------------------------------------------------------------------------
(* The PyTorch HUD MCP server (pytorch_hud_mcp_server.py). A line of stdin   *)
(* is blank, or text that json.loads rejects, or the text of a JSON value;   *)
(* a JSON object is a record, the empty object the empty function, and a     *)
(* value that is no object a record with the one field nonobject             *)

MaxLines == 2

\* {}: falsy and without keys
EmptyDict == [key \in {} |-> key]

\* isinstance(value, dict)
IsDict(value) == "nonobject" \notin DOMAIN value

\* the error codes the server writes
InternalError == -32603

ParseError == -32700

\* the tool names of the in-tree server's tools/list answer
AdvertisedTools == {"get_failing_tests"}

HudPRs == {101, 102}

\* what get_failing_tests_from_hud can return: the failing tests the HUD API
\* reports, [] when the query raises
HudFound == {<<>>, <<[name |-> "test_a", status |-> "failed"]>>}

\* json.dumps(value) + "\n"
dumps(value) == [text |-> "json", value |-> value]

\* a tools/call request as call_tool builds it
ToolCall(id, tool_name, arguments) ==
    [jsonrpc |-> "2.0", id |-> Some(id), method |-> "tools/call",
     params |-> [name |-> tool_name, arguments |-> arguments]]

\* the lines a peer can write to the server's stdin
Lines ==
    {[text |-> "blank"], [text |-> "invalid"],
     dumps([nonobject |-> "array"]),
     dumps([jsonrpc |-> "2.0", id |-> Some(1), method |-> "initialize",
            params |-> EmptyDict]),
     dumps([jsonrpc |-> "2.0", id |-> Some(1), method |-> "tools/list"]),
     dumps([jsonrpc |-> "2.0", id |-> Some(1), method |-> "tools/call",
            params |-> [nonobject |-> "string"]]),
     dumps([jsonrpc |-> "2.0", method |-> "notifications/initialized"])}
    \cup {dumps(ToolCall(1, "get_failing_tests", [pr_number |-> n])) :
              n \in HudPRs}
    \cup {dumps([jsonrpc |-> "2.0", id |-> Some(2), method |-> "ping"])}
    \cup {dumps(ToolCall(1, "get_recent_commits_with_jobs_resource",
                         [branch_or_commit_sha |-> "main"]))}

\* the sequences over S of length up to n
RECURSIVE SeqsUpTo(_, _)
SeqsUpTo(S, n) ==
    IF n = 0 THEN {<<>>}
    ELSE LET shorter == SeqsUpTo(S, n - 1)
         IN  shorter \cup {Append(q, x) : q \in shorter, x \in S}

\* the except clause of handle_request
error_response(id, code) ==
    [jsonrpc |-> "2.0", id |-> id, error |-> [code |-> code]]

\* fault: a success response that does not carry the id of its request
response_without_id(id, result) ==
    [jsonrpc |-> "2.0", id |-> None, result |-> result]

result_response(id, result) ==
    [jsonrpc |-> "2.0", id |-> id, result |-> result]

\* handle_request: the line it returns for a request line, hud being what
\* get_failing_tests_from_hud returns if it is called
handle_request(request_line, hud) ==
    IF request_line.text # "json"
    THEN \* json.loads raises before request_id is bound
         error_response(None, InternalError)
    ELSE
    LET request == request_line.value
    IN  IF ~IsDict(request)
        THEN \* request.get raises AttributeError
             error_response(None, InternalError)
        ELSE
        LET method == Get(request, "method", "")
            params == Get(request, "params", EmptyDict)
            id_of_request == Get(request, "id", None)
        IN  CASE method = "initialize" ->
                   result_response(id_of_request,
                       [protocolVersion |-> "2024-11-05",
                        serverInfo |-> "pytorch-hud"])
              [] method = "tools/list" ->
                   result_response(id_of_request, [tools |-> AdvertisedTools])
              [] method = "tools/call" /\ ~IsDict(params) ->
                   \* params.get raises AttributeError
                   error_response(id_of_request, InternalError)
              [] method = "tools/call" /\ IsDict(params)
                     /\ Get(params, "name", "") = "get_failing_tests" ->
                   LET arguments == Get(params, "arguments", EmptyDict)
                   IN  result_response(id_of_request,
                           [failing_tests |-> hud,
                            pr_number |-> Get(arguments, "pr_number", 0),
                            total_failures |-> Len(hud),
                            status |-> "failing"])
              [] OTHER -> result_response(id_of_request, EmptyDict)

\* one pass of main()'s loop over a line: a blank line is skipped, any other
\* is answered with what handle_request returns. handle_request catches
\* every exception itself, so main()'s except clause and its ParseError
\* answer are not reached from it
ServerRead ==
    /\ fn_pc = "reading"
    /\ fn_in # <<>>
    /\ LET line == Head(fn_in)
       IN  IF line.text = "blank"
           THEN fn_out' = Append(fn_out, [line |-> line, written |-> <<>>])
           ELSE \E hud \in HudFound :
                  fn_out' = Append(fn_out,
                      [line |-> line,
                       written |-> <<handle_request(line, hud)>>])
    /\ fn_in' = Tail(fn_in)
    /\ UNCHANGED fn_pc
    /\ UNCHANGED <<ctlVars, smVars, engVars, mcpVars, bkVars, llmVars>>

\* readline returns "" at the end of stdin: break
ServerEOF ==
    /\ fn_pc = "reading"
    /\ fn_in = <<>>
    /\ fn_pc' = "exited"
    /\ UNCHANGED <<fn_in, fn_out>>
    /\ UNCHANGED <<ctlVars, smVars, engVars, mcpVars, bkVars, llmVars>>

\* the server is started; fn_in is what its peer writes before it closes the
\* stream, fn_out the lines read so far with what was written for each
InitHudServer ==
    /\ CtlOff /\ SMInit /\ EngIdle /\ MCPInit /\ BkInit /\ LLMOff
    /\ fn_pc = "reading"
    /\ fn_in \in SeqsUpTo(Lines, MaxLines)
    /\ fn_out = <<>>

NextHudServer == ServerRead \/ ServerEOF

SpecHudServer == InitHudServer /\ [][NextHudServer]_vars

-----------------------------------------------------------------------------
(* PyTorchHUDClient.get_failing_tests (mcp/pytorch_hud_client.py) over        *)
(* MCPClientManager.call_tool, against the in-tree server and against a      *)
(* server that knows the tools the client calls                             *)

MaxCommits == 2

\* what call_tool gives its caller for the response line of the server:
\* _handle_responses sets an exception for an error response, else the
\* result (default {}); call_tool re-raises as RuntimeError
call_tool_outcome(response) ==
    IF "error" \in DOMAIN response
    THEN [raised |-> TRUE]
    ELSE [raised |-> FALSE, value |-> Get(response, "result", EmptyDict)]

\* call_tool("pytorch_hud", tool_name, arguments) answered by the in-tree
\* server
InTreeCall(tool_name, arguments, hud) ==
    call_tool_outcome(
        handle_request(dumps(ToolCall(1, tool_name, arguments)), hud))

\* the first call get_failing_tests makes
FirstCall ==
    [name |-> "get_recent_commits_with_jobs_resource",
     arguments |-> [repo_owner |-> "pytorch", repo_name |-> "pytorch",
                    branch_or_commit_sha |-> "main"]]

Jobs ==
    {<<>>, <<[id |-> 1, conclusion |-> "failure"]>>,
     <<[id |-> 1, conclusion |-> "success"]>>}

Commits ==
    {[sha |-> "abc"]} \cup
    {[sha |-> "abc", pr_number |-> n, jobs |-> js] : n \in HudPRs, js \in Jobs}

\* how the calls can end against a server that knows the tools
RecentOutcomes ==
    {[raised |-> TRUE], [raised |-> FALSE, value |-> EmptyDict]} \cup
    {[raised |-> FALSE, value |-> [commits |-> cs]] :
        cs \in SeqsUpTo(Commits, MaxCommits)}

LogOutcomes ==
    {[raised |-> TRUE], [raised |-> FALSE, value |-> EmptyDict],
     [raised |-> FALSE, value |-> [file_path |-> "/tmp/log"]]}

ExtractOutcomes ==
    {[raised |-> TRUE], [raised |-> FALSE, value |-> EmptyDict]} \cup
    {[raised |-> FALSE,
      value |-> [test_results |-> <<[name |-> "test_a", status |-> st]>>]] :
        st \in {"failed", "passed"}}

\* the index of the first commit of the PR, 0 if there is none
RECURSIVE FirstCommitOf(_, _, _)
FirstCommitOf(commits, pr_number, i) ==
    IF i > Len(commits) THEN 0
    ELSE IF "pr_number" \in DOMAIN commits[i]
            /\ commits[i].pr_number = pr_number
    THEN i
    ELSE FirstCommitOf(commits, pr_number, i + 1)

\* the TestResult objects one failing job contributes; an exception of the
\* two calls is caught by the inner except clause
TestsOfJob(job, log, extracted) ==
    IF \/ log.raised
       \/ "file_path" \notin DOMAIN log.value
       \/ extracted.raised
       \/ "test_results" \notin DOMAIN extracted.value
    THEN <<>>
    ELSE SelectSeq(extracted.value.test_results,
                   LAMBDA test : test.status = "failed")

RECURSIVE TestsOfJobs(_, _, _)
TestsOfJobs(jobs, log, extracted) ==
    IF jobs = <<>> THEN <<>>
    ELSE (IF Head(jobs).conclusion = "failure"
          THEN TestsOfJob(Head(jobs), log, extracted)
          ELSE <<>>)
         \o TestsOfJobs(Tail(jobs), log, extracted)

\* get_failing_tests, given how its calls end (with one job in a commit and
\* one test in a log the max_errors limit is not reached)
get_failing_tests(pr_number, recent, log, extracted) ==
    IF recent.raised
    THEN [raised |-> TRUE, value |-> <<>>]
    ELSE IF "commits" \notin DOMAIN recent.value
    THEN [raised |-> FALSE, value |-> <<>>]
    ELSE LET commits == recent.value.commits
             i == FirstCommitOf(commits, pr_number, 1)
         IN  [raised |-> FALSE,
              value |-> IF i = 0 THEN <<>>
                        ELSE TestsOfJobs(Get(commits[i], "jobs", <<>>),
                                         log, extracted)]

\* get_failing_tests is awaited and returns or raises
GetFailingTests ==
    /\ fn_pc = "input"
    /\ fn_in # None
    /\ "pr_number" \in DOMAIN fn_in[1]
    /\ LET in == fn_in[1]
       IN  fn_out' = Some([called |-> FirstCall,
                           response |-> in.recent,
                           returned |-> get_failing_tests(
                               in.pr_number, in.recent, in.log,
                               in.extracted)])
    /\ fn_pc' = "done"
    /\ UNCHANGED fn_in
    /\ UNCHANGED <<ctlVars, smVars, engVars, mcpVars, bkVars, llmVars>>

InitHudClient ==
    /\ CtlOff /\ SMInit /\ EngIdle /\ MCPInit /\ BkInit /\ LLMOff
    /\ fn_pc = "input"
    /\ fn_out = None
    /\ \E n \in HudPRs :
         \/ \E hud \in HudFound :
              fn_in = Some([pr_number |-> n, server |-> "in_tree",
                  recent |-> InTreeCall(FirstCall.name, FirstCall.arguments,
                                        hud),
                  log |-> InTreeCall("download_log_to_file_resource",
                                     [job_id |-> 1], hud),
                  extracted |-> InTreeCall("extract_test_results_resource",
                                           [file_path |-> "/tmp/log"], hud)])
         \/ \E recent \in RecentOutcomes, log \in LogOutcomes,
               extracted \in ExtractOutcomes :
              fn_in = Some([pr_number |-> n, server |-> "other",
                            recent |-> recent, log |-> log,
                            extracted |-> extracted])

NextHudClient == GetFailingTests

SpecHudClient == InitHudClient /\ [][NextHudClient]_vars

-----------------------------------------------------------------------------
(* MCPClientManager._handle_responses(server) as a task of its own, over     *)
(* what the server process writes before its stdout ends. fn_in is the       *)
(* stream still to be read, fn_out the MCPServer object and the futures      *)

\* the lines a server process can write: a result or an error for a
\* request, pending or not, and text that is no JSON
StreamLines ==
    {[text |-> "invalid"]} \cup
    {dumps(result_response(Some(id), EmptyDict)) : id \in {1, 2}} \cup
    {dumps(error_response(Some(1), InternalError))}

\* how the stream ends: readline returns b"" at EOF, or raises
StreamEnds == {"eof", "raise"}

\* one pass of the loop with a line: the future of the response's id, if
\* one is pending, is popped and resolved; any other line is skipped. Then
\* the while condition is evaluated
HandlerRead ==
    /\ fn_pc = "readline"
    /\ fn_in.lines # <<>>
    /\ LET line == Head(fn_in.lines)
           id == IF line.text = "json" THEN line.value.id ELSE None
       IN  fn_out' =
             IF id # None /\ id[1] \in fn_out.pending
             THEN [fn_out EXCEPT !.pending = @ \ {id[1]},
                                 !.resolved = @ \cup {id[1]}]
             ELSE fn_out
    /\ fn_in' = [fn_in EXCEPT !.lines = Tail(@)]
    /\ fn_pc' = IF fn_out.running THEN "readline" ELSE "exited"
    /\ UNCHANGED <<ctlVars, smVars, engVars, mcpVars, bkVars, llmVars>>

\* readline returns b"": break. server.running is not written
HandlerEOF ==
    /\ fn_pc = "readline"
    /\ fn_in.lines = <<>>
    /\ fn_in.end = "eof"
    /\ fn_pc' = "exited"
    /\ fn_out' = [fn_out EXCEPT !.exit = "eof"]
    /\ UNCHANGED fn_in
    /\ UNCHANGED <<ctlVars, smVars, engVars, mcpVars, bkVars, llmVars>>

\* readline raises: the outer except clause
HandlerCrash ==
    /\ fn_pc = "readline"
    /\ fn_in.lines = <<>>
    /\ fn_in.end = "raise"
    /\ fn_pc' = "exited"
    /\ fn_out' = [fn_out EXCEPT !.running = FALSE, !.exit = "raise"]
    /\ UNCHANGED fn_in
    /\ UNCHANGED <<ctlVars, smVars, engVars, mcpVars, bkVars, llmVars>>

\* stop_server(name) while the handler waits in readline: the flag is
\* cleared and the process terminated, so that its stdout ends after at
\* most the line in flight
StopStreamingServer ==
    /\ fn_pc = "readline"
    /\ fn_out.running
    /\ fn_out' = [fn_out EXCEPT !.running = FALSE]
    /\ fn_in' = [lines |-> IF fn_in.lines = <<>> THEN <<>>
                           ELSE <<Head(fn_in.lines)>>,
                 end |-> "eof"]
    /\ UNCHANGED fn_pc
    /\ UNCHANGED <<ctlVars, smVars, engVars, mcpVars, bkVars, llmVars>>

\* start_server has created the MCPServer (running = True) and the task
InitHandler ==
    /\ CtlOff /\ SMInit /\ EngIdle /\ MCPInit /\ BkInit /\ LLMOff
    /\ fn_pc = "readline"
    /\ fn_in \in [lines : SeqsUpTo(StreamLines, MaxLines), end : StreamEnds]
    /\ \E pending \in {{}, {1}, {1, 2}} :
         fn_out = [running |-> TRUE, exit |-> "none", pending |-> pending,
                   resolved |-> {}]

NextHandler ==
    HandlerRead \/ HandlerEOF \/ HandlerCrash \/ StopStreamingServer

SpecHandler == InitHandler /\ [][NextHandler]_vars

-----------------------------------------------------------------------------
(* IssueFixingAgent._validate_and_cleanup_files. Paths are strings; a        *)
(* pattern of unwanted_patterns is its literal, whether re.match has to find *)
(* the literal at the start, and whether ".*" stands between the literal     *)
(* and the final "\.py$"                                                     *)

MaxFiles == 2

UpperCase == "ABCDEFGHIJKLMNOPQRSTUVWXYZ"

LowerCase == "abcdefghijklmnopqrstuvwxyz"

\* the character re.IGNORECASE compares c as
lower_char(c) ==
    IF \E i \in 1..Len(UpperCase) : SubSeq(UpperCase, i, i) = c
    THEN LET i == CHOOSE i \in 1..Len(UpperCase) : SubSeq(UpperCase, i, i) = c
         IN  SubSeq(LowerCase, i, i)
    ELSE c

RECURSIVE lower(_)
lower(str) ==
    IF Len(str) = 0 THEN ""
    ELSE lower_char(SubSeq(str, 1, 1)) \o lower(SubSeq(str, 2, Len(str)))

\* the string a pattern is matched against under re.IGNORECASE
ignorecase(str) == lower(str)

unwanted_patterns ==
    <<[anchored |-> TRUE, literal |-> "test_", gap |-> TRUE],
      [anchored |-> FALSE, literal |-> "_test", gap |-> FALSE],
      [anchored |-> FALSE, literal |-> "/test/", gap |-> TRUE],
      [anchored |-> FALSE, literal |-> "test", gap |-> TRUE],
      [anchored |-> FALSE, literal |-> "example", gap |-> TRUE],
      [anchored |-> FALSE, literal |-> "demo", gap |-> TRUE],
      [anchored |-> FALSE, literal |-> "standalone", gap |-> TRUE],
      [anchored |-> FALSE, literal |-> "usage", gap |-> TRUE],
      [anchored |-> FALSE, literal |-> "rope", gap |-> TRUE],
      [anchored |-> FALSE, literal |-> "basic", gap |-> TRUE],
      [anchored |-> FALSE, literal |-> "validation", gap |-> TRUE]>>

\* re.match(pattern, file_path, re.IGNORECASE): the literal at position i
\* (1 if the pattern does not start with ".*"), and ".py" at the end of the
\* string, behind the literal or right behind it
re_match(pattern, file_path) ==
    LET str == ignorecase(file_path)
        n == Len(str)
        k == Len(pattern.literal)
    IN  \E i \in (IF pattern.anchored THEN {1} ELSE 1..n) :
           /\ i + k - 1 <= n
           /\ SubSeq(str, i, i + k - 1) = pattern.literal
           /\ n - 2 >= i + k
           /\ SubSeq(str, n - 2, n) = ".py"
           /\ ~pattern.gap => n - 2 = i + k

\* is_unwanted after the loop over the patterns
is_unwanted(file_path) ==
    \E j \in 1..Len(unwanted_patterns) :
        re_match(unwanted_patterns[j], file_path)

\* fault: a cleanup that does not look at self.dry_run
cleans_up_in_dry_run(dry, git_ops) == git_ops

\* if not self.dry_run and self.git_ops
cleans_up(dry, git_ops) == ~dry /\ git_ops

\* the loop over changed_files; acc holds validated_files, the paths on
\* disk, those os.remove was called for and those git rm --cached was
\* called for
RECURSIVE ValidateFrom(_, _, _, _)
ValidateFrom(changed_files, dry, git_ops, acc) ==
    IF changed_files = <<>> THEN acc
    ELSE LET file_path == Head(changed_files)
             after ==
               IF ~is_unwanted(file_path)
               THEN [acc EXCEPT !.validated_files = Append(@, file_path)]
               ELSE IF cleans_up(dry, git_ops)
               THEN [acc EXCEPT
                        !.removed = @ \cup ({file_path} \cap acc.disk),
                        !.disk = @ \ {file_path},
                        !.unstaged = @ \cup {file_path}]
               ELSE acc
         IN  ValidateFrom(Tail(changed_files), dry, git_ops, after)

_validate_and_cleanup_files(changed_files, dry, git_ops, disk) ==
    ValidateFrom(changed_files, dry, git_ops,
                 [validated_files |-> <<>>, disk |-> disk, removed |-> {},
                  unstaged |-> {}])

\* the example of the specification
ExampleFiles == <<"src/fix.py", "test_foo.py", "demo_usage.py", "models/layer.py">>

\* paths git status can report
ChangedPaths ==
    {"src/fix.py", "test_foo.py", "demo_usage.py", "models/layer.py",
     "Test_Foo.PY", "src/latest.py", "ops_test.py", "property.py",
     "tests/data.txt", "old_example.py"}

\* the changed paths that are deletions: not on disk
DeletedPaths == {"old_example.py"}

ElementsOf(seq) == {seq[i] : i \in 1..Len(seq)}

\* _fix_issue calls the routine under "if self.git_ops"
ValidateFiles ==
    /\ fn_pc = "input"
    /\ fn_in # None
    /\ "changed_files" \in DOMAIN fn_in[1]
    /\ LET in == fn_in[1]
       IN  fn_out' = Some(_validate_and_cleanup_files(
                              in.changed_files, in.dry_run, TRUE, in.disk))
    /\ fn_pc' = "done"
    /\ UNCHANGED fn_in
    /\ UNCHANGED <<ctlVars, smVars, engVars, mcpVars, bkVars, llmVars>>

InitValidate ==
    /\ CtlOff /\ SMInit /\ EngIdle /\ MCPInit /\ BkInit /\ LLMOff
    /\ fn_pc = "input"
    /\ fn_out = None
    /\ \E changed \in SeqsUpTo(ChangedPaths, MaxFiles) \cup {ExampleFiles},
          dry \in BOOLEAN :
         fn_in = Some([changed_files |-> changed, dry_run |-> dry,
                       disk |-> ElementsOf(changed) \ DeletedPaths])

NextValidate == ValidateFiles

SpecValidate == InitValidate /\ [][NextValidate]_vars

-----------------------------------------------------------------------------
(* GitHubMCPClient.get_pr_ci_status and _get_ci_status_with_gh_cli           *)
(* (mcp/github_client.py)                                                    *)

MaxChecks == 2

upper_char(c) ==
    IF \E i \in 1..Len(LowerCase) : SubSeq(LowerCase, i, i) = c
    THEN LET i == CHOOSE i \in 1..Len(LowerCase) : SubSeq(LowerCase, i, i) = c
         IN  SubSeq(UpperCase, i, i)
    ELSE c

\* str.upper()
RECURSIVE upper(_)
upper(str) ==
    IF Len(str) = 0 THEN ""
    ELSE upper_char(SubSeq(str, 1, 1)) \o upper(SubSeq(str, 2, Len(str)))

\* the entries gh reports in statusCheckRollup: check runs, whose conclusion
\* is blank until the status is COMPLETED, and commit status contexts, which
\* have a state and neither conclusion nor status
CheckRuns ==
    {[name |-> c, status |-> "COMPLETED", conclusion |-> c] :
        c \in {"SUCCESS", "FAILURE", "TIMED_OUT", "CANCELLED", "SKIPPED",
               "NEUTRAL", "ACTION_REQUIRED"}}
    \cup {[name |-> st, status |-> st, conclusion |-> ""] :
            st \in {"IN_PROGRESS", "QUEUED"}}

StatusContexts == {[name |-> "context", state |-> "FAILURE"]}

RollupEntries == CheckRuns \cup StatusContexts

\* the job list of the specification's example
ExampleRollup ==
    <<[name |-> "failure", status |-> "COMPLETED", conclusion |-> "failure"],
      [name |-> "success", status |-> "COMPLETED", conclusion |-> "success"],
      [name |-> "in_progress", status |-> "in_progress", conclusion |-> ""]>>

\* check_info of _get_ci_status_with_gh_cli
gh_check_info(check) ==
    [name |-> Get(check, "name", "unknown"),
     state |-> Get(check, "conclusion", Get(check, "state", "unknown"))]

\* the bucket the if chain of _get_ci_status_with_gh_cli appends to
gh_bucket(check) ==
    LET conclusion == upper(Get(check, "conclusion", ""))
        status == upper(Get(check, "status", ""))
    IN  IF conclusion \in {"FAILURE", "TIMED_OUT", "CANCELLED"}
        THEN "failing"
        ELSE IF conclusion = "SUCCESS" THEN "passing"
        ELSE IF status \in {"IN_PROGRESS", "QUEUED"} \/ conclusion = ""
        THEN "pending"
        ELSE IF conclusion \in {"SKIPPED", "NEUTRAL"} THEN "passing"
        ELSE "pending"

\* fault: pending checks outweigh failing ones
overall_pending_first(failing_checks, pending_checks) ==
    IF pending_checks # <<>> THEN "pending"
    ELSE IF failing_checks # <<>> THEN "failure"
    ELSE "success"

\* "failure" if failing_checks else ("pending" if pending_checks else
\* "success")
overall_state(failing_checks, pending_checks) ==
    IF failing_checks # <<>> THEN "failure"
    ELSE IF pending_checks # <<>> THEN "pending"
    ELSE "success"

\* the dict both routines return
ci_status(overall, failing_checks, pending_checks, passing_checks) ==
    [overall_state |-> overall,
     failing_checks |-> failing_checks,
     pending_checks |-> pending_checks,
     passing_checks |-> passing_checks,
     total_checks |-> Len(failing_checks) + Len(pending_checks)
                        + Len(passing_checks)]

\* the check_info dicts appended to a bucket, in order; classified holds
\* for every check, in order, its check_info and the bucket it goes to
InBucket(classified, bucket) ==
    LET selected == SelectSeq(classified, LAMBDA c : c.bucket = bucket)
    IN  [i \in 1..Len(selected) |-> selected[i].info]

\* the loop of _get_ci_status_with_gh_cli over status_checks
gh_classified(status_checks) ==
    [i \in 1..Len(status_checks) |->
        [bucket |-> gh_bucket(status_checks[i]),
         info |-> gh_check_info(status_checks[i])]]

\* _get_ci_status_with_gh_cli: gh fails (return code, timeout, bad JSON), or
\* its statusCheckRollup is classified
_get_ci_status_with_gh_cli(gh_ok, rollup) ==
    IF ~gh_ok
    THEN ci_status("error", <<>>, <<>>, <<>>)
    ELSE LET failing_checks == InBucket(gh_classified(rollup), "failing")
             pending_checks == InBucket(gh_classified(rollup), "pending")
             passing_checks == InBucket(gh_classified(rollup), "passing")
         IN  ci_status(overall_state(failing_checks, pending_checks),
                       failing_checks, pending_checks, passing_checks)

\* the fallback of get_pr_ci_status: plain statuses by state (any other
\* state goes to no bucket), check runs by conclusion
mcp_status_info(status) ==
    [name |-> Get(status, "context", "unknown"),
     state |-> Get(status, "state", "unknown")]

mcp_status_bucket(status) ==
    LET state == Get(status, "state", "")
    IN  IF state = "failure" THEN "failing"
        ELSE IF state = "pending" THEN "pending"
        ELSE IF state = "success" THEN "passing"
        ELSE "none"

mcp_run_info(check_run) ==
    [name |-> Get(check_run, "name", "unknown"),
     state |-> Get(check_run, "conclusion",
                   Get(check_run, "status", "unknown"))]

mcp_run_bucket(check_run) ==
    LET conclusion == Get(check_run, "conclusion", "")
    IN  IF conclusion \in {"failure", "timed_out", "cancelled"}
        THEN "failing"
        ELSE IF conclusion = "success" THEN "passing"
        ELSE "pending"

\* what call_tool("github", "get_pull_request_status", ...) can give: an
\* exception, no data, the status data, or the status data as the JSON text
\* of a content item
StatusData ==
    {[statuses |-> <<[context |-> "ci", state |-> st]>>] :
        st \in {"failure", "error"}}
    \cup {[statuses |-> <<[context |-> "ci", state |-> "success"]>>,
           check_runs |-> <<[name |-> "run", conclusion |-> c]>>] :
             c \in {"skipped"}}

McpOutcomes ==
    {[raised |-> TRUE], [raised |-> FALSE, value |-> EmptyDict]}
    \cup {[raised |-> FALSE, value |-> d] : d \in StatusData}
    \cup {[raised |-> FALSE, value |-> [content |-> <<dumps(d)>>]] :
             d \in {[statuses |-> <<>>]}}

\* get_pr_ci_status
get_pr_ci_status(gh_ok, rollup, mcp) ==
    LET github_cli_result == _get_ci_status_with_gh_cli(gh_ok, rollup)
    IN  IF github_cli_result.total_checks > 1 THEN github_cli_result
        ELSE IF mcp.raised THEN github_cli_result
        ELSE
        LET result == mcp.value
            status_data ==
                IF "content" \in DOMAIN result /\ result.content # <<>>
                THEN result.content[1].value
                ELSE result
        IN  IF "statuses" \notin DOMAIN status_data
            THEN ci_status("unknown", <<>>, <<>>, <<>>)
            ELSE
            LET runs == Get(status_data, "check_runs", <<>>)
                classified ==
                    [k \in 1..Len(status_data.statuses) |->
                        [bucket |-> mcp_status_bucket(status_data.statuses[k]),
                         info |-> mcp_status_info(status_data.statuses[k])]]
                    \o [k \in 1..Len(runs) |->
                        [bucket |-> mcp_run_bucket(runs[k]),
                         info |-> mcp_run_info(runs[k])]]
                failing_checks == InBucket(classified, "failing")
                pending_checks == InBucket(classified, "pending")
                passing_checks == InBucket(classified, "passing")
            IN  ci_status(overall_state(failing_checks, pending_checks),
                          failing_checks, pending_checks, passing_checks)

\* get_pr_ci_status is awaited and returns; cli is what its call of
\* _get_ci_status_with_gh_cli returned
GetCIStatus ==
    /\ fn_pc = "input"
    /\ fn_in # None
    /\ "rollup" \in DOMAIN fn_in[1]
    /\ LET in == fn_in[1]
       IN  fn_out' = Some(
               [cli |-> _get_ci_status_with_gh_cli(in.gh_ok, in.rollup),
                returned |-> get_pr_ci_status(in.gh_ok, in.rollup, in.mcp)])
    /\ fn_pc' = "done"
    /\ UNCHANGED fn_in
    /\ UNCHANGED <<ctlVars, smVars, engVars, mcpVars, bkVars, llmVars>>

InitCI ==
    /\ CtlOff /\ SMInit /\ EngIdle /\ MCPInit /\ BkInit /\ LLMOff
    /\ fn_pc = "input"
    /\ fn_out = None
    /\ \E rollup \in SeqsUpTo(RollupEntries, MaxChecks) \cup {ExampleRollup},
          gh_ok \in BOOLEAN, mcp \in McpOutcomes :
         fn_in = Some([rollup |-> rollup, gh_ok |-> gh_ok, mcp |-> mcp])

NextCI == GetCIStatus

SpecCI == InitCI /\ [][NextCI]_vars

-----------------------------------------------------------------------------
(* IssueFixingAgent._monitor_progress with the two retrievals it awaits, and *)
(* what run() does after it                                                  *)

\* what pytorch_hud_client.get_failing_tests can do: raise RuntimeError or
\* return TestResult objects
HudResults ==
    {[raised |-> TRUE, value |-> <<>>]} \cup
    {[raised |-> FALSE, value |-> tests] : tests \in TestsFound}

\* what call_tool("github", "get_pull_request_comments", ...) can do: raise,
\* return a result without comments, with comments, or with a comment that
\* lacks a field
CommentCalls ==
    {[raised |-> TRUE], [raised |-> FALSE, value |-> EmptyDict],
     [raised |-> FALSE, value |-> [comments |-> <<>>]],
     [raised |-> FALSE,
      value |-> [comments |-> <<[id |-> 1, body |-> "comment_1"]>>]],
     [raised |-> FALSE, value |-> [comments |-> <<[id |-> 1]>>]]}

\* fault: a get_pr_comments without its except clause
get_pr_comments_uncaught(called) ==
    IF called.raised
       \/ ("comments" \in DOMAIN called.value
           /\ \E i \in 1..Len(called.value.comments) :
                  "body" \notin DOMAIN called.value.comments[i])
    THEN [raised |-> TRUE, value |-> <<>>]
    ELSE [raised |-> FALSE,
          value |-> IF "comments" \in DOMAIN called.value
                    THEN [i \in 1..Len(called.value.comments) |->
                             called.value.comments[i].body]
                    ELSE <<>>]

\* GitHubMCPClient.get_pr_comments: any exception of the call or of the
\* construction of a GitHubComment is caught and [] returned
get_pr_comments(called) ==
    IF called.raised
       \/ ("comments" \in DOMAIN called.value
           /\ \E i \in 1..Len(called.value.comments) :
                  "body" \notin DOMAIN called.value.comments[i])
    THEN [raised |-> FALSE, value |-> <<>>]
    ELSE [raised |-> FALSE,
          value |-> IF "comments" \in DOMAIN called.value
                    THEN [i \in 1..Len(called.value.comments) |->
                             called.value.comments[i].body]
                    ELSE <<>>]

\* _monitor_progress: the HUD retrieval stands in a try, the comment
\* retrieval does not
_monitor_progress(ctx, t, hud, called) ==
    LET checked == monitor_progress_begin(ctx, t)
        tested == [checked EXCEPT
                      !.failing_tests = IF hud.raised THEN <<>> ELSE hud.value]
        comments == get_pr_comments(called)
    IN  IF comments.raised
        THEN [raised |-> TRUE, context |-> tested]
        ELSE [raised |-> FALSE,
              context |-> [tested EXCEPT !.review_comments = comments.value]]

\* the contexts a MONITORING pass can start from
MonitoredContexts ==
    {[NewContext EXCEPT !.issue_data = Some("issue"),
                        !.pr_number = Some(101),
                        !.branch_name = Some(1),
                        !.fix_attempt_count = 1,
                        !.last_check_time = last,
                        !.failing_tests = tests,
                        !.review_comments = comments] :
        last \in {None, Some(0)}, tests \in TestsFound,
        comments \in CommentsFound}

\* one pass of the run loop in MONITORING: _execute_current_state, and
\* unless it raised the get_next_state of _transition_to_next_state
MonitorPass ==
    /\ fn_pc = "input"
    /\ fn_in # None
    /\ "hud" \in DOMAIN fn_in[1]
    /\ LET in == fn_in[1]
           out == _monitor_progress(in.context, in.now, in.hud, in.called)
       IN  fn_out' = Some([raised |-> out.raised, context |-> out.context,
                           next_state |->
                               IF out.raised THEN None
                               ELSE Some(get_next_state(MONITORING,
                                             out.context, in.now))])
    /\ fn_pc' = "done"
    /\ UNCHANGED fn_in
    /\ UNCHANGED <<ctlVars, smVars, engVars, mcpVars, bkVars, llmVars>>

InitMonitorPass ==
    /\ CtlOff /\ SMInit /\ EngIdle /\ MCPInit /\ BkInit /\ LLMOff
    /\ fn_pc = "input"
    /\ fn_out = None
    /\ \E ctx \in MonitoredContexts, t \in 0..MaxTime, hud \in HudResults,
          called \in CommentCalls :
         fn_in = Some([context |-> ctx, now |-> t, hud |-> hud,
                       called |-> called])

NextMonitorPass == MonitorPass

SpecMonitorPass == InitMonitorPass /\ [][NextMonitorPass]_vars

-----------------------------------------------------------------------------
(* MCPClientManager.stop_all and stop_server. fn_out holds the registry,    *)
(* each server's running flag and process, and the task stop_all has made   *)
(* for it; fn_in holds what terminate() and the wait of each process do     *)

\* what process.terminate() does: the signal is sent, or the call raises
\* (the OSError of a signal the caller may not send)
TerminateOutcomes == {"sent", "raises"}

\* what wait_for(process.wait(), 5.0) does: the process ends in time, or
\* TimeoutError
WaitOutcomes == {"exits", "timeout"}

\* the state of a registered server's process: returncode is None, or the
\* process has ended by itself
ProcessStates == {"running", "exited"}

\* del self.servers[name]
unregister(registry, name) == registry \ {name}

\* stop_server(name) for a name that is not a key of self.servers: return
StopUnregistered ==
    /\ fn_pc = "input"
    /\ \E name \in Servers \ (fn_out.registry \cup fn_out.returned_at_once) :
         fn_out' = [fn_out EXCEPT !.returned_at_once = @ \cup {name}]
    /\ UNCHANGED <<fn_pc, fn_in>>
    /\ UNCHANGED <<ctlVars, smVars, engVars, mcpVars, bkVars, llmVars>>

\* stop_all up to its gather: one stop_server coroutine for every key
StopAllBegin ==
    /\ fn_pc = "input"
    /\ fn_pc' = "gather"
    /\ fn_out' = [fn_out EXCEPT !.task =
                      [s \in Servers |-> IF s \in fn_out.registry
                                         THEN "created" ELSE "none"]]
    /\ UNCHANGED fn_in
    /\ UNCHANGED <<ctlVars, smVars, engVars, mcpVars, bkVars, llmVars>>

\* stop_server(name) up to its await: the flag is cleared; a process whose
\* returncode is None is sent SIGTERM and waited for. When terminate()
\* raises, except Exception logs the error and the server is unregistered;
\* so is at once a server whose process had ended
StopServerBegin ==
    /\ fn_pc = "gather"
    /\ \E name \in Servers :
         /\ fn_out.task[name] = "created"
         /\ fn_out' =
              IF /\ fn_out.process[name] = "running"
                 /\ fn_in.terminate[name] = "sent"
              THEN [fn_out EXCEPT !.running[name] = FALSE,
                                  !.task[name] = "waiting"]
              ELSE [fn_out EXCEPT !.running[name] = FALSE,
                                  !.task[name] = "done",
                                  !.registry = unregister(@, name)]
    /\ UNCHANGED <<fn_pc, fn_in>>
    /\ UNCHANGED <<ctlVars, smVars, engVars, mcpVars, bkVars, llmVars>>

\* stop_server(name) from its await on: the process has ended within the
\* five seconds, or TimeoutError and process.kill(); then the server is
\* unregistered
StopServerEnd ==
    /\ fn_pc = "gather"
    /\ \E name \in Servers :
         /\ fn_out.task[name] = "waiting"
         /\ fn_out' =
              [fn_out EXCEPT !.process[name] =
                                 IF fn_in.wait[name] = "exits"
                                 THEN "terminated" ELSE "killed",
                             !.task[name] = "done",
                             !.registry = unregister(@, name)]
    /\ UNCHANGED <<fn_pc, fn_in>>
    /\ UNCHANGED <<ctlVars, smVars, engVars, mcpVars, bkVars, llmVars>>

\* gather(*tasks, return_exceptions=True) is over, or there was no task
StopAllReturn ==
    /\ fn_pc = "gather"
    /\ \A s \in Servers : fn_out.task[s] \in {"none", "done"}
    /\ fn_pc' = "returned"
    /\ UNCHANGED <<fn_in, fn_out>>
    /\ UNCHANGED <<ctlVars, smVars, engVars, mcpVars, bkVars, llmVars>>

\* a manager with any of the servers registered; a server that is not
\* registered has no process. The flag of a registered server is False
\* when its response handler has crashed
InitStop ==
    /\ CtlOff /\ SMInit /\ EngIdle /\ MCPInit /\ BkInit /\ LLMOff
    /\ fn_pc = "input"
    /\ fn_in \in [terminate : [Servers -> TerminateOutcomes],
                  wait : [Servers -> WaitOutcomes],
                  registered : SUBSET Servers]
    /\ \E process \in [Servers -> ProcessStates \cup {"none"}],
          flags \in [Servers -> BOOLEAN] :
         /\ \A s \in Servers : process[s] = "none" <=> s \notin fn_in.registered
         /\ \A s \in Servers : s \notin fn_in.registered => ~flags[s]
         /\ fn_out = [registry |-> fn_in.registered,
                      running |-> flags,
                      process |-> process,
                      task |-> [s \in Servers |-> "none"],
                      returned_at_once |-> {}]

NextStop ==
    \/ StopUnregistered
    \/ StopAllBegin
    \/ StopServerBegin
    \/ StopServerEnd
    \/ StopAllReturn

SpecStop == InitStop /\ [][NextStop]_vars

-----------------------------------------------------------------------------
(* run() up to its loop, started on any state file *)

\* the number of an issue the agent was not constructed for
OtherIssue == issue_number + 1

\* the states a state file can hold: of this issue or of another one
LoadStates ==
    {AgentState(s, [NewContext EXCEPT !.issue_number = n,
                                      !.fix_attempt_count = k,
                                      !.pr_number = p]) :
        s \in IssueState, n \in {issue_number, OtherIssue},
        k \in 0..max_attempts, p \in {None, Some(101)}}

\* no state file, a state file json.load raises on, or a state file written
\* in full
InitLoad ==
    /\ CtlInit /\ EngIdle /\ MCPInit /\ BkInit /\ LLMOff /\ FnOff
    /\ \E f \in {None} \cup {FileOf(st, part) :
                                st \in LoadStates,
                                part \in {"complete", "partial"}} :
         files = [p \in Paths |-> IF p = state_file THEN f ELSE None]
    /\ sm_current = None
    /\ sm_pc = "idle"
    /\ sm_arg = None
    /\ last_saved = None
    /\ loaded = None
    /\ lock = None

NextLoad == RunStart \/ RunInitFail \/ RunLoad

SpecLoad == InitLoad /\ [][NextLoad]_vars

-----------------------------------------------------------------------------
(* GitOperations.create_branch. A git command ends with return code 0      *)
(* ("ok"), with another return code ("failed"), or _run_git_command        *)
(* returns None after a timeout or an OSError ("none"). The routine is     *)
(* applied to the outcome of each command it can run and returns its value *)
(* and the log of the commands it ran                                      *)

GitOutcomes == {"ok", "failed", "none"}

\* result and result.returncode == 0
Succeeded(outcome) == outcome = "ok"

\* one _run_git_command call and what it gave
Git(cmd, outcome) == <<[cmd |-> cmd, result |-> outcome]>>

\* cleanup_repository: the four commands, whatever each gives; it returns
\* True
cleanup_repository(git) ==
    Git("reset --hard HEAD", git.reset) \o Git("clean -fd", git.clean) \o
    Git("merge --abort", git.abort) \o Git("rebase --abort", git.abort)

\* fault: a create_branch that gives up when the fetch fails
create_branch_needing_fetch(git) ==
    LET log == cleanup_repository(git) \o Git("branch --list", "ok") \o
               Git("checkout base", git.checkout) \o
               Git("fetch origin", git.fetch)
    IN  IF Succeeded(git.checkout) /\ Succeeded(git.fetch)
        THEN [value |-> Succeeded(git.create),
              log |-> log \o Git("pull origin base", git.pull) \o
                      Git("checkout -B", git.create)]
        ELSE [value |-> FALSE, log |-> log]

\* create_branch(branch_name, base_branch). git.exists: branch --list names
\* the branch; git.on_branch: branch --show-current gives branch_name
create_branch(git) ==
    LET probed == cleanup_repository(git) \o Git("branch --list", "ok") \o
                  (IF git.exists
                   THEN Git("branch --show-current", "ok") ELSE <<>>)
        switched == IF git.exists /\ git.on_branch
                    THEN probed \o Git("checkout base", git.switch)
                    ELSE probed
        deleted == IF git.exists
                   THEN switched \o Git("branch -D", git.delete) \o
                        (IF Succeeded(git.delete) THEN <<>>
                         ELSE Git("branch -Dr", git.delete_remote))
                   ELSE switched
        based == deleted \o Git("checkout base", git.checkout)
    IN  IF git.exists /\ git.on_branch /\ ~Succeeded(git.switch)
        THEN [value |-> FALSE, log |-> switched]
        ELSE IF ~Succeeded(git.checkout)
        THEN [value |-> FALSE, log |-> based]
        ELSE [value |-> Succeeded(git.create),
              log |-> based \o Git("fetch origin", git.fetch) \o
                      Git("pull origin base", git.pull) \o
                      Git("checkout -B", git.create)]

CreateBranch ==
    /\ fn_pc = "input"
    /\ fn_in # None
    /\ "create" \in DOMAIN fn_in[1]
    /\ fn_out' = Some(create_branch(fn_in[1]))
    /\ fn_pc' = "done"
    /\ UNCHANGED fn_in
    /\ UNCHANGED <<ctlVars, smVars, engVars, mcpVars, bkVars, llmVars>>

\* merge --abort and rebase --abort fail when there is nothing to abort
InitGit ==
    /\ CtlOff /\ SMInit /\ EngIdle /\ MCPInit /\ BkInit /\ LLMOff
    /\ fn_pc = "input"
    /\ fn_out = None
    /\ \E git \in [reset : GitOutcomes, clean : {"ok", "failed"},
                   abort : {"ok", "failed"},
                   exists : BOOLEAN, on_branch : BOOLEAN,
                   switch : {"ok", "failed"}, delete : {"ok", "failed"},
                   delete_remote : {"ok", "failed"},
                   checkout : GitOutcomes, fetch : GitOutcomes,
                   pull : GitOutcomes, create : GitOutcomes] :
         fn_in = Some(git)

NextGit == CreateBranch

SpecGit == InitGit /\ [][NextGit]_vars

-----------------------------------------------------------------------------
(* A live fix pass followed by the transition and the action it leads to:   *)
(* _fix_issue, _transition_to_next_state, _create_pull_request, with        *)
(* self.git_ops set. fn_in holds what Claude CLI, git status, commit_changes,*)
(* push_branch and the GitHub client give; fn_out holds the controller's    *)
(* state and context, whether the pass committed, and the calls made        *)

\* paths git status can report after the fix
FixPaths == {"src/fix.py", "test_foo.py"}

\* _fix_issue, live: the attempt is counted and the branch created; Claude
\* CLI runs, and its failure raises; get_status gives no file when its
\* query fails; the retained files are stored and, if there are any,
\* commit_changes is called, whose failure is logged
FixIssue ==
    /\ fn_pc = "input"
    /\ fn_in # None
    /\ "status_ok" \in DOMAIN fn_in[1]
    /\ LET in == fn_in[1]
           ctx == fix_issue_begin(fn_out.context)
           changed_files == IF in.status_ok THEN in.changed_files ELSE <<>>
           validated_files ==
               _validate_and_cleanup_files(
                   changed_files, FALSE, TRUE,
                   ElementsOf(changed_files)).validated_files
       IN  IF ~in.cli_ok
           THEN /\ fn_out' = [fn_out EXCEPT
                                 !.context = ctx,
                                 !.calls = @ \cup {"create_branch",
                                                   "_run_claude_cli_fix"}]
                /\ fn_pc' = "crashed"
           ELSE /\ fn_out' =
                     [fn_out EXCEPT
                         !.context = [ctx EXCEPT
                                          !.generated_files = validated_files],
                         !.committed = validated_files # <<>> /\ in.commit_ok,
                         !.calls = @ \cup
                             {"create_branch", "_run_claude_cli_fix"} \cup
                             (IF validated_files # <<>>
                              THEN {"commit_changes"} ELSE {})]
                /\ fn_pc' = "fixed"
    /\ UNCHANGED fn_in
    /\ UNCHANGED <<ctlVars, smVars, engVars, mcpVars, bkVars, llmVars>>

\* _transition_to_next_state after the fix pass has returned
TransitionAfterFix ==
    /\ fn_pc = "fixed"
    /\ LET next_state == get_next_state(fn_out.current_state, fn_out.context, 0)
       IN  fn_out' = [fn_out EXCEPT !.current_state =
                          IF next_state # NoState /\ next_state # @
                          THEN next_state ELSE @]
    /\ fn_pc' = "transitioned"
    /\ UNCHANGED fn_in
    /\ UNCHANGED <<ctlVars, smVars, engVars, mcpVars, bkVars, llmVars>>

\* _create_pull_request, live: the branch is pushed, and a failed push
\* raises; then the GitHub client's create_pull_request is called, and no
\* pull request raises
CreatePullRequest ==
    /\ fn_pc = "transitioned"
    /\ fn_out.current_state = CREATING_PR
    /\ LET in == fn_in[1]
       IN  IF ~in.push_ok
           THEN /\ fn_out' = [fn_out EXCEPT !.calls = @ \cup {"push_branch"}]
                /\ fn_pc' = "crashed"
           ELSE /\ fn_out' =
                     [fn_out EXCEPT
                         !.calls = @ \cup {"push_branch", "create_pull_request"},
                         !.context.pr_number = in.pr]
                /\ fn_pc' = IF in.pr = None THEN "crashed" ELSE "done"
    /\ UNCHANGED fn_in
    /\ UNCHANGED <<ctlVars, smVars, engVars, mcpVars, bkVars, llmVars>>

\* the workflow has failed at the attempt limit: run() leaves its loop
FailedAfterFix ==
    /\ fn_pc = "transitioned"
    /\ fn_out.current_state = FAILED
    /\ fn_pc' = "done"
    /\ UNCHANGED <<fn_in, fn_out>>
    /\ UNCHANGED <<ctlVars, smVars, engVars, mcpVars, bkVars, llmVars>>

\* FIXING is entered with the issue fetched and fewer than max_attempts
\* attempts counted
InitFixPR ==
    /\ CtlOff /\ SMInit /\ EngIdle /\ MCPInit /\ BkInit /\ LLMOff
    /\ fn_pc = "input"
    /\ \E changed \in SeqsUpTo(FixPaths, MaxFiles),
          cli, status, commit, push \in BOOLEAN,
          pr \in {None, Some(101)} :
         fn_in = Some([changed_files |-> changed, cli_ok |-> cli,
                       status_ok |-> status, commit_ok |-> commit,
                       push_ok |-> push, pr |-> pr])
    /\ \E n \in 0..(max_attempts - 1) :
         fn_out = [current_state |-> FIXING,
                   context |-> [NewContext EXCEPT
                                    !.issue_data = Some("issue"),
                                    !.fix_attempt_count = n],
                   committed |-> FALSE,
                   calls |-> {}]

NextFixPR ==
    FixIssue \/ TransitionAfterFix \/ CreatePullRequest \/ FailedAfterFix

SpecFixPR == InitFixPR /\ [][NextFixPR]_vars

-----------------------------------------------------------------------------
(* Properties of the controller *)

\* current_state of the state file, NoState if load_state would return None
PersistedState ==
    IF ParseStateFile(files) = None
    THEN NoState
    ELSE ParseStateFile(files)[1].current_state

\* C1: in every reachable state of the controller, fix_attempt_count is at
\* most max_attempts (over raising actions, restarts and pause/resume).
C1_AttemptCountWithinBudget == context.fix_attempt_count <= max_attempts

\* C2: COMPLETED and FAILED are absorbing: once current_state is terminal no
\* step of the same process changes it, once the persisted current_state is
\* terminal no step changes it, and no state action is entered.
C2_TerminalAbsorbing ==
    [][/\ is_terminal_state(current_state)
            => /\ current_state' \in {current_state, NoState}
               /\ pc' = "await" => pc = "await"
       /\ is_terminal_state(PersistedState)
            => PersistedState' = PersistedState]_vars

\* C5: when pause() was called during the run loop (self.running is False at
\* its end), the loop ends with current_state PAUSED and PAUSED persisted.
C5_PauseEndsPaused ==
    (pc = "stopped" /\ ~running)
        => (current_state = PAUSED /\ PersistedState = PAUSED)

\* C6: the first state action of the run loop resume() re-invokes is that of
\* the re-entry state chosen from the context, and resume() outside PAUSED
\* does not run the loop.
C6_ResumeReentry ==
    [][/\ (resuming /\ ~resuming' /\ pc' = "await")
            => executing' = ResumeState(context)
       /\ (current_state # PAUSED /\ pc \in {"stopped", "crashed"})
            => pc' # "init"]_vars

PersistedPR ==
    IF ParseStateFile(files) = None
    THEN None
    ELSE ParseStateFile(files)[1].context.pr_number

\* C28: the CREATING_PR action is entered only while pr_number is unset;
\* once pr_number is set, no step of the agent changes or clears it (a new
\* process starts with an empty context and loads it from the state file),
\* and the pr_number of the state file never changes.
C28_PRNumberWrittenOnce ==
    [][/\ (pc # "await" /\ pc' = "await" /\ executing' = CREATING_PR)
            => context.pr_number = None
       /\ (context.pr_number # None /\ ~(pc \in {"stopped", "crashed"}
                                        /\ pc' = "idle"))
            => context'.pr_number = context.pr_number
       /\ PersistedPR # None => PersistedPR' = PersistedPR
       /\ (pc = "init" /\ pc' = "head" /\ PersistedPR # None)
            => context'.pr_number = PersistedPR]_vars

\* a pull request was created, the process was restarted, and the new
\* process has loaded the number and is monitoring
C28_PRNumberSurvivesRestart ==
    /\ ~dry_run
    /\ context.pr_number \in {Some(n) : n \in PRNumbers}
    /\ PersistedPR = context.pr_number
    /\ loaded # None
    /\ executing = MONITORING
    /\ pc = "await"
    /\ interventions > 0

\* C29: a MONITORING pass never raises; when the failing-test retrieval
\* fails failing_tests is empty, when the comment retrieval fails
\* review_comments is empty; last_check_time is the time of the pass and the
\* run loop computes the next state.
C29_MonitoringNeverAborts ==
    (fn_pc = "done" /\ fn_out # None) =>
        LET in == fn_in[1]
            out == fn_out[1]
        IN  /\ ~out.raised
            /\ in.hud.raised => out.context.failing_tests = <<>>
            /\ in.called.raised => out.context.review_comments = <<>>
            /\ out.context.last_check_time = Some(in.now)
            /\ out.next_state # None
            /\ out.next_state[1] \in
                  {MONITORING, ADDRESSING_REVIEWS, COMPLETED, FAILED}

\* both retrievals failed in a pass that started with stale lists
C29_BothRetrievalsFailed ==
    /\ fn_pc = "done"
    /\ fn_out # None
    /\ "hud" \in DOMAIN fn_in[1]
    /\ fn_in[1].hud.raised
    /\ fn_in[1].called.raised
    /\ fn_in[1].context.failing_tests # <<>>
    /\ fn_in[1].context.review_comments # <<>>
    /\ fn_in[1].now > 0
    /\ ~fn_out[1].raised
    /\ fn_out[1].context.failing_tests = <<>>
    /\ fn_out[1].context.review_comments = <<>>
    /\ fn_out[1].context.last_check_time = Some(fn_in[1].now)

\* C30: an ADDRESSING_REVIEWS action that returns has incremented
\* fix_attempt_count by exactly 1 (when it was entered), has emptied
\* review_comments and failing_tests and has left every other field, among
\* them branch_name and pr_number, as it was; one that raises leaves
\* review_comments and failing_tests as they were.
C30_AddressingReviewsFrame ==
    [][/\ (pc # "await" /\ pc' = "await" /\ executing' = ADDRESSING_REVIEWS)
            => context' = [context EXCEPT !.fix_attempt_count = @ + 1]
       /\ (pc = "await" /\ executing = ADDRESSING_REVIEWS)
            => CASE pc' = "await" -> context' = context
                 [] pc' = "crashed" ->
                      /\ context'.review_comments = context.review_comments
                      /\ context'.failing_tests = context.failing_tests
                      /\ context'.fix_attempt_count = context.fix_attempt_count
                 [] OTHER ->
                      context' = [context EXCEPT !.review_comments = <<>>,
                                                 !.failing_tests = <<>>]]_vars

\* a second fix attempt was made in ADDRESSING_REVIEWS and has returned
C30_ReviewsAddressed ==
    /\ executing = ADDRESSING_REVIEWS
    /\ pc = "sleep"
    /\ context.fix_attempt_count = 2
    /\ context.review_comments = <<>>
    /\ context.failing_tests = <<>>
    /\ context.branch_name = Some(1)
    /\ context.pr_number # None

\* C22: in dry-run mode no state action invokes the coding CLI, creates a
\* branch, commits, pushes, deletes or un-stages a file or creates a pull
\* request, and once the CREATING_PR action has returned pr_number is the
\* sentinel 999999
C22_DryRunCallsNothing ==
    dry_run =>
        /\ effects \cap RepositoryCalls = {}
        /\ context.pr_number \in {None, Some(DryRunPR)}
        /\ (executing = CREATING_PR /\ pc = "sleep")
               => context.pr_number = Some(DryRunPR)

\* a dry run has gone from FETCHING through CREATING_PR into MONITORING
C22_DryRunReachedMonitoring ==
    /\ dry_run
    /\ executing = CREATING_PR
    /\ pc = "sleep"
    /\ current_state = MONITORING
    /\ context.branch_name # None
    /\ context.fix_attempt_count = 1
    /\ context.pr_number = Some(DryRunPR)
    /\ effects = {}

\* C33: run() starts from the persisted state and context exactly when the
\* state file exists, parses and holds the requested issue number; in every
\* other case it starts at FETCHING with a fresh context (no fix attempt
\* counted, no PR number)
C33_ResumeOnlySameIssue ==
    [][pc = "init" /\ pc' = "head" =>
          LET file == files[state_file]
              usable == /\ file # None
                        /\ file[1].part = "complete"
                        /\ file[1].data.issue_number = issue_number
          IN  IF usable
              THEN /\ current_state' = IssueStateOf(file[1].data.current_state)
                   /\ context' = _deserialize_context(file[1].data.context)
              ELSE /\ current_state' = FETCHING
                   /\ context' = NewContext
                   /\ context'.fix_attempt_count = 0
                   /\ context'.pr_number = None]_vars

\* run() has started afresh on the complete state file of another issue
C33_OtherIssueIgnored ==
    /\ pc = "head"
    /\ files[state_file] # None
    /\ files[state_file][1].part = "complete"
    /\ files[state_file][1].data.issue_number = OtherIssue
    /\ files[state_file][1].data.context.pr_number = Some(101)
    /\ current_state = FETCHING
    /\ context = NewContext

\* C36: the controller moves a workflow into FAILED only from FIXING or
\* ADDRESSING_REVIEWS and only with fix_attempt_count >= max_attempts; an
\* action of FETCHING, ANALYZING or CREATING_PR that raises leaves the
\* workflow in its state
C36_FailedOnlyAfterExhaustedAttempts ==
    [][/\ (current_state' = FAILED /\ current_state \notin {FAILED, NoState}) =>
            /\ current_state \in {FIXING, ADDRESSING_REVIEWS}
            /\ context'.fix_attempt_count >= max_attempts
       /\ (/\ pc = "await"
           /\ pc' = "crashed"
           /\ executing \in {FETCHING, ANALYZING, CREATING_PR}) =>
            /\ current_state' = current_state
            /\ current_state' # FAILED]_vars

\* the workflow has failed at the attempt limit, after an action had raised
C36_FailedAtLimit ==
    /\ current_state = FAILED
    /\ context.fix_attempt_count = max_attempts
    /\ context.error_history # <<>>

\* C37: live, the call that creates the pull request is made only after a
\* fix pass that has retained a changed file and committed it
C37_PROnlyAfterCommittedFix ==
    "create_pull_request" \in fn_out.calls =>
        /\ fn_out.context.generated_files # <<>>
        /\ fn_out.committed

-----------------------------------------------------------------------------
(* Properties of the HUD server and of its client *)

\* whether the handling of a line raises inside handle_request's try
HandlingRaises(line) ==
    /\ line.text = "json"
    /\ \/ ~IsDict(line.value)
       \/ /\ Get(line.value, "method", "") = "tools/call"
          /\ ~IsDict(Get(line.value, "params", EmptyDict))

\* C24: a line that is not valid JSON is answered with error -32700, a
\* request whose handling raises with -32603; in both cases exactly one
\* error response is written and the server goes on reading.
C24_ErrorCodes ==
    /\ \A i \in 1..Len(fn_out) :
         /\ fn_out[i].line.text = "invalid"
              => /\ Len(fn_out[i].written) = 1
                 /\ "error" \in DOMAIN fn_out[i].written[1]
                 /\ fn_out[i].written[1].error.code = ParseError
         /\ HandlingRaises(fn_out[i].line)
              => /\ Len(fn_out[i].written) = 1
                 /\ "error" \in DOMAIN fn_out[i].written[1]
                 /\ fn_out[i].written[1].error.code = InternalError
    /\ (fn_pc = "exited" /\ Len(fn_out) > 0) => fn_in = <<>>

\* C23: get_failing_tests calls the tool named get_failing_tests, which the
\* in-tree server advertises, with the PR number, and raises whenever the
\* response is absent or has no failing_tests field.
C23_ClientCallsAdvertisedTool ==
    (fn_pc = "done" /\ fn_out # None) =>
        LET out == fn_out[1]
        IN  /\ out.called.name = "get_failing_tests"
            /\ out.called.name \in AdvertisedTools
            /\ "pr_number" \in DOMAIN out.called.arguments
            /\ (\/ out.response.raised
                \/ "failing_tests" \notin DOMAIN out.response.value)
                   => out.returned.raised

\* the id a line asks its answer to carry: that of the request, null when
\* the line holds no request object
IdOf(line) ==
    IF line.text = "json" /\ IsDict(line.value)
    THEN Get(line.value, "id", None)
    ELSE None

\* whether a line is a request the server has no handler for
Unhandled(line) ==
    /\ line.text = "json"
    /\ IsDict(line.value)
    /\ \/ Get(line.value, "method", "")
              \notin {"initialize", "tools/list", "tools/call"}
       \/ /\ Get(line.value, "method", "") = "tools/call"
          /\ IsDict(Get(line.value, "params", EmptyDict))
          /\ Get(Get(line.value, "params", EmptyDict), "name", "")
                 \notin AdvertisedTools

\* C31: the server answers every non-blank line with exactly one response,
\* written before the next line is read and so in input order, carrying the
\* id of the request; a request with an unknown method or an unknown tool
\* gets a success response with an empty result; at the end of input the
\* server exits and writes nothing more.
C31_OneResponsePerLine ==
    [][/\ fn_in' # fn_in =>
            /\ fn_in # <<>>
            /\ fn_in' = Tail(fn_in)
            /\ Len(fn_out') = Len(fn_out) + 1
            /\ SubSeq(fn_out', 1, Len(fn_out)) = fn_out
            /\ LET line == Head(fn_in)
                   written == fn_out'[Len(fn_out')].written
               IN  /\ fn_out'[Len(fn_out')].line = line
                   /\ Len(written) = IF line.text = "blank" THEN 0 ELSE 1
                   /\ line.text # "blank" => written[1].id = IdOf(line)
                   /\ Unhandled(line) =>
                          /\ "error" \notin DOMAIN written[1]
                          /\ written[1].result = EmptyDict
       /\ fn_in' = fn_in => fn_out' = fn_out
       /\ fn_pc' = "exited" => fn_in = <<>> /\ fn_in' = <<>>
       /\ fn_pc = "exited" => fn_pc' = "exited"]_vars

\* the server has answered a request with an unknown method and a call of a
\* tool it does not have, and has exited at the end of input
C31_UnknownAnswered ==
    /\ fn_pc = "exited"
    /\ Len(fn_out) = 2
    /\ fn_out[1].line.text = "json"
    /\ IsDict(fn_out[1].line.value)
    /\ Get(fn_out[1].line.value, "method", "") = "ping"
    /\ fn_out[1].written = <<result_response(Some(2), EmptyDict)>>
    /\ Unhandled(fn_out[2].line)
    /\ Get(fn_out[2].line.value, "method", "") = "tools/call"
    /\ fn_out[2].written = <<result_response(Some(1), EmptyDict)>>

\* C25: when the server's output stream has closed, the response loop has
\* exited and the server's running flag is false.
C25_EOFClearsRunning ==
    (fn_pc = "exited" /\ fn_out.exit = "eof") => ~fn_out.running

\* what the specification calls unwanted: a path that ends in ".py", in any
\* case, and has one of the words before it
UnwantedWords ==
    {"test", "example", "demo", "standalone", "usage", "rope", "basic",
     "validation"}

NamedUnwanted(file_path) ==
    LET n == Len(file_path)
    IN  /\ n >= 3
        /\ lower(SubSeq(file_path, n - 2, n)) = ".py"
        /\ \E w \in UnwantedWords, i \in 1..n :
             /\ i + Len(w) - 1 <= n - 3
             /\ lower(SubSeq(file_path, i, i + Len(w) - 1)) = w

-----------------------------------------------------------------------------
(* Properties of the manager's servers *)

\* C32: after stop_all has returned the registry is empty, and every server
\* that was registered is marked not running and its process has been
\* terminated or killed (or had ended before)
C32_StopAllStopsEverything ==
    fn_pc = "returned" /\ "registry" \in DOMAIN fn_out =>
        /\ fn_out.registry = {}
        /\ \A s \in fn_in.registered :
             /\ ~fn_out.running[s]
             /\ fn_out.process[s] \in {"terminated", "killed", "exited"}

-----------------------------------------------------------------------------
(* Properties of the git operations *)

\* the commands of a log that are cmd
Ran(log, cmd) == {i \in 1..Len(log) : log[i].cmd = cmd}

\* C34: create_branch returns True exactly when every checkout of the base
\* branch it ran succeeded and its last command, checkout -B, succeeded.
\* The cleanup commands always run; whatever they, the deletion of the
\* existing branch, the fetch and the pull give, the routine goes on to the
\* fetch, the pull and checkout -B once the base branch is checked out
C34_CreateBranchResult ==
    fn_pc = "done" /\ "create" \in DOMAIN fn_in[1] =>
        LET log == fn_out[1].log
            last == log[Len(log)]
            based == /\ Ran(log, "checkout base") # {}
                     /\ \A i \in Ran(log, "checkout base") :
                          log[i].result = "ok"
        IN  /\ fn_out[1].value <=>
                   /\ based
                   /\ last.cmd = "checkout -B"
                   /\ last.result = "ok"
            /\ {"reset --hard HEAD", "clean -fd", "merge --abort",
                "rebase --abort"} \subseteq {log[i].cmd : i \in 1..Len(log)}
            /\ based <=> /\ Ran(log, "fetch origin") # {}
                         /\ Ran(log, "pull origin base") # {}
                         /\ last.cmd = "checkout -B"
            /\ fn_in[1].exists /\ based => Ran(log, "branch -D") # {}

\* the branch is created although the reset, the deletion of the existing
\* branch, the fetch and the pull have all failed
C34_CreatedDespiteFailures ==
    /\ fn_pc = "done"
    /\ "create" \in DOMAIN fn_in[1]
    /\ fn_in[1].exists
    /\ fn_in[1].reset = "failed"
    /\ fn_in[1].delete = "failed"
    /\ fn_in[1].fetch = "failed"
    /\ fn_in[1].pull = "none"
    /\ fn_out[1].value
    /\ Len(fn_out[1].log) = 12

-----------------------------------------------------------------------------
(* Properties of the GitHub client *)

\* the bucket the specification names for an entry of the rollup
NamedBucket(check) ==
    LET conclusion == lower(Get(check, "conclusion", ""))
        status == lower(Get(check, "status", ""))
    IN  CASE conclusion \in {"failure", "timed_out", "cancelled"} -> "failing"
          [] conclusion \in {"success", "skipped", "neutral"} -> "passing"
          [] status \in {"in_progress", "queued"} \/ conclusion = "" ->
               "pending"
          [] OTHER -> "any"

Count(seq, x) == Cardinality({i \in 1..Len(seq) : seq[i] = x})

\* C27: the classification of the status rollup puts every entry into
\* exactly one of the three buckets, the one the specification names for its
\* conclusion and status; total_checks is the number of entries; the
\* overall state is failure if a check fails, else pending if one is
\* pending, else success; get_pr_ci_status returns this classification when
\* it has more than one check.
C27_RollupClassification ==
    (fn_pc = "done" /\ fn_out # None /\ fn_in[1].gh_ok) =>
        LET rollup == fn_in[1].rollup
            cli == fn_out[1].cli
            infos == [i \in 1..Len(rollup) |-> gh_check_info(rollup[i])]
        IN  /\ \A i \in 1..Len(rollup) :
                 LET failing == Count(cli.failing_checks, infos[i])
                     pending == Count(cli.pending_checks, infos[i])
                     passing == Count(cli.passing_checks, infos[i])
                     all == Count(infos, infos[i])
                 IN  /\ failing + pending + passing = all
                     /\ all \in {failing, pending, passing}
                     /\ NamedBucket(rollup[i]) = "failing" => failing = all
                     /\ NamedBucket(rollup[i]) = "pending" => pending = all
                     /\ NamedBucket(rollup[i]) = "passing" => passing = all
            /\ cli.total_checks = Len(rollup)
            /\ cli.overall_state =
                  IF \E i \in 1..Len(rollup) : infos[i] \in
                         {cli.failing_checks[j] :
                              j \in 1..Len(cli.failing_checks)}
                  THEN "failure"
                  ELSE IF \E i \in 1..Len(rollup) : infos[i] \in
                         {cli.pending_checks[j] :
                              j \in 1..Len(cli.pending_checks)}
                  THEN "pending"
                  ELSE "success"
            /\ rollup = ExampleRollup
                  => /\ Len(cli.failing_checks) = 1
                     /\ Len(cli.passing_checks) = 1
                     /\ Len(cli.pending_checks) = 1
                     /\ cli.overall_state = "failure"
            /\ Len(rollup) > 1 => fn_out[1].returned = cli

\* a rollup with a failing and a pending check has been classified
C27_FailingAndPending ==
    /\ fn_pc = "done"
    /\ fn_out # None
    /\ "rollup" \in DOMAIN fn_in[1]
    /\ fn_in[1].gh_ok
    /\ Len(fn_in[1].rollup) = 2
    /\ Len(fn_out[1].returned.failing_checks) = 1
    /\ Len(fn_out[1].returned.pending_checks) = 1
    /\ fn_out[1].returned.overall_state = "failure"
    /\ fn_out[1].returned.total_checks = 2

-----------------------------------------------------------------------------
(* Properties of the state manager *)

\* C4: save_state is crash-atomic. Whatever point of save_state the process
\* has reached or died at, the state file parses to the last state whose save
\* returned True, or is absent if there is none, and a load_state that has
\* returned has returned that state.
C4_SaveStateCrashAtomic ==
    /\ ParseStateFile(files) = last_saved
    /\ last_saved = None => files[state_file] = None
    /\ sm_pc = "loaded" => loaded = last_saved

\* a save was interrupted while its temporary file was written in part, and
\* the load_state that followed returned the state saved before
C4_LoadAfterInterruptedSave ==
    /\ sm_pc = "loaded"
    /\ last_saved # None
    /\ loaded = last_saved
    /\ files[temp_file] # None
    /\ files[temp_file][1].part = "partial"
    /\ files[temp_file][1].data # state_dict(last_saved[1])

MainInCS == sm_pc \in {"open", "write", "close", "rename"}

\* the thread of timer t is inside backup_state with a state file to copy
TimerInCS(t) == timer[t] \in {"read", "write"}

\* C14: under every interleaving of the main thread's save_state, load_state
\* and clear_state with the timer threads' backup_state, the operations on
\* the state file exclude one another (no two threads are inside them at
\* once, and no file changes nor is loaded while a backup is copying); what
\* a backup reads is never a partially written file; and every backup file
\* written holds the complete text of the state saved last
C14_BackupMutuallyExclusive ==
    /\ [](/\ ~(MainInCS /\ \E t \in Timers : TimerInCS(t))
          /\ \A t, u \in Timers : TimerInCS(t) /\ TimerInCS(u) => t = u
          /\ \A t \in Timers :
                bk_buf[t] # None => bk_buf[t][1].part = "complete"
          /\ \A b \in backups : b.part = "complete")
    /\ [][(\E t \in Timers : TimerInCS(t)) =>
             (files' = files /\ loaded' = loaded /\ sm_pc' = sm_pc)]_vars
    /\ [][backups' # backups =>
             /\ last_saved # None
             /\ backups' = backups \cup {FileOf(last_saved[1], "complete")[1]}]_vars

\* a backup has been written, and a timer's callback waits for the lock
\* while the main thread is in the middle of a save of another state
C14_BackupWaitsForSave ==
    /\ sm_pc = "write"
    /\ \E t \in Timers : timer[t] = "fired"
    /\ backups # {}
    /\ \A b \in backups : b.data # state_dict(sm_arg[1])

\* C15: after stop_auto_backup has returned no timer is armed and
\* self._backup_timer is unset, so that no further scheduled backup runs
C15_StopDisarmsBackup ==
    auto_stopped =>
        /\ backup_timer = None
        /\ \A t \in Timers : timer[t] # "armed"

-----------------------------------------------------------------------------
(* Properties of the Claude client *)

\* C19: _make_request makes at most max_retries completion calls; it returns
\* at the first call that gives a non-empty response, every call before it
\* having failed; when every attempt fails it has made exactly max_retries
\* calls, has not slept after the last one and raises the last attempt's
\* error; with max_retries = 0 it makes no call and raises the generic
\* RuntimeError; an empty response is an error like any other (it is in
\* errors as ValueError and is followed by a sleep and another call)
C19_RetryBudget ==
    /\ llm_calls <= max_retries
    /\ Len(waits) <= Len(errors)
    /\ llm_pc = "sleep" => attempt + 1 < max_retries
    /\ llm_pc \in {"call", "sleep"} => llm_text = None /\ raised = None
    /\ llm_pc = "returned" =>
          /\ llm_text = Some("text")
          /\ raised = None
          /\ llm_calls = Len(errors) + 1
          /\ Len(waits) = Len(errors)
    /\ llm_pc = "raised" =>
          /\ llm_text = None
          /\ IF max_retries = 0
             THEN llm_calls = 0 /\ raised = Some("RuntimeError")
             ELSE /\ llm_calls = max_retries
                  /\ Len(errors) = max_retries
                  /\ Len(waits) = max_retries - 1
                  /\ raised = Some(errors[Len(errors)])

\* every attempt has failed, an empty response among them but not the last
C19_AllAttemptsFailed ==
    /\ llm_pc = "raised"
    /\ max_retries = MaxRetries
    /\ llm_calls = MaxRetries
    /\ errors[1] = "ValueError"
    /\ raised = Some("APIError")

\* the wait the kind of error calls for
DueDelay(e, a) ==
    CASE e = "RateLimitError" -> retry_delay * Pow2(a)
      [] e = "APIConnectionError" -> retry_delay * 2
      [] OTHER -> retry_delay

\* C20: the wait after failed attempt a is retry_delay * 2^a after a
\* rate-limit error, retry_delay * 2 after a connection error and
\* retry_delay after a generic API error or any other exception
C20_DelayByErrorKind ==
    \A i \in 1..Len(waits) :
        waits[i].delay = DueDelay(waits[i].error, waits[i].attempt)

\* C21: when the completion call has raised on every attempt, or its text
\* holds no parsable JSON, analyze_issue returns the fixed fallback object
\* and generate_pr_description returns the title "Fix issue #<n>", n the
\* number of the issue it was given in the flat as in the nested shape,
\* with the fixed body; neither raises
C21_FallbackNamesTheIssue ==
    (fn_pc = "done" /\ ~fn_out[1].parsed) =>
        /\ ~fn_out[1].raised
        /\ fn_out[1].value =
              IF fn_in[1].routine = "analyze_issue"
              THEN AnalysisFallback
              ELSE [title |-> <<"Fix issue #", ToString(issue_number)>>,
                    body |-> "Automated fix for PyTorch issue."]

-----------------------------------------------------------------------------
(* Properties of the MCP client manager *)

\* C3: every resolved future, and every call_tool that has returned or
\* raised, carries the response whose id is the id of the caller's own
\* request (and so the answer to its own arguments), whatever the number of
\* outstanding calls and the order of the responses.
C3_CallerGetsOwnResponse ==
    \A c \in Callers :
        /\ future[c] # None
              => /\ future[c][1].id = call[c].id
                 /\ future[c][1].value = call[c].arguments
        /\ call[c].pc \in {"returned", "raised"}
              => /\ call[c].response # None
                 /\ call[c].response[1].id = call[c].id
                 /\ call[c].response[1].value = call[c].arguments
                 /\ call[c].pc = "raised" <=> call[c].response[1].kind = "error"

\* two calls outstanding on one server were answered in reverse order: the
\* later call has returned while the response to the earlier one is still
\* unread behind it
C3_ReverseOrderResolved ==
    \E c1, c2 \in Callers :
        /\ call[c1].server = call[c2].server
        /\ call[c1].id < call[c2].id
        /\ call[c1].arguments # call[c2].arguments
        /\ call[c1].pc = "waiting"
        /\ future[c1] = None
        /\ PendingIndex(pending_requests, call[c1].id) # 0
        /\ call[c2].pc = "returned"
        /\ \E k \in 1..Len(server_out[call[c1].server]) :
              server_out[call[c1].server][k].id = call[c1].id

\* C16: every request id the manager issues (for call_tool, list_tools and
\* the initialize handshake, on any server) is greater than every id it
\* issued before, hence distinct from all of them, also after timeouts and
\* after a server was stopped and started again: the ids issued are exactly
\* 1..request_id, the counter never goes back, and every request registered
\* carries an id that was not issued before
C16_RequestIdsNeverReused ==
    /\ [](issued = 1..request_id)
    /\ [][(Len(pending_requests') > Len(pending_requests)
             \/ request_id' # request_id) =>
            /\ request_id' > request_id
            /\ \A i \in issued : i < request_id'
            /\ issued' = issued \cup {request_id'}
            /\ pending_requests'[Len(pending_requests')].id = request_id']_vars

\* the handshake of a server timed out (its id 1 is still in the table and
\* its late response unread), the server was stopped and is being started
\* again with the third id issued
C16_RestartAfterTimeout ==
    \E s \in Servers, c \in Callers :
        /\ call[c].method = "initialize"
        /\ call[c].server = s
        /\ call[c].id = 3
        /\ issued = {1, 2, 3}
        /\ server_out[s] # <<>>
        /\ Head(server_out[s]).id = 1
        /\ PendingIndex(pending_requests, 1) # 0

\* a caller is waiting for the response with this id
Awaited(rid) ==
    \E c \in Callers : call[c].id = rid /\ call[c].pc = "waiting"

\* the handler of server s reads the next line in this step
HandlerReads(s) ==
    server_out[s] # <<>> /\ server_out'[s] = Tail(server_out[s])

\* C17: after call_tool or list_tools has timed out its id is not in the
\* pending table and the caller holds no response (it got the timeout
\* failure); a response whose caller does not wait for it any more is read
\* and dropped without resolving any caller; and a response that is waited
\* for resolves its own caller when it is read, whatever was dropped before
C17_LateResponseDiscarded ==
    /\ [](\A c \in Callers :
            (call[c].pc = "timeout" /\ call[c].method # "initialize") =>
                /\ PendingIndex(pending_requests, call[c].id) = 0
                /\ call[c].response = None
                /\ future[c] = None)
    /\ [][\A s \in Servers :
            (HandlerReads(s) /\ ~Awaited(Head(server_out[s]).id)) =>
                (future' = future /\ call' = call)]_vars
    /\ [][\A s \in Servers :
            (/\ HandlerReads(s)
             /\ Awaited(Head(server_out[s]).id)
             /\ PendingIndex(pending_requests, Head(server_out[s]).id) # 0) =>
                \E c \in Callers :
                    /\ call[c].id = Head(server_out[s]).id
                    /\ future'[c] = Some(Head(server_out[s]))]_vars

\* the call with id 2 timed out and its response came late: it is unread,
\* its id is in the table no more, and behind it lies the response to the
\* call with id 3, whose caller waits
C17_LateResponseAhead ==
    \E s \in Servers, c \in Callers :
        /\ Len(server_out[s]) = 2
        /\ server_out[s][1].id = 2
        /\ PendingIndex(pending_requests, 2) = 0
        /\ server_out[s][2].id = 3
        /\ call[c].id = 3
        /\ call[c].pc = "waiting"
        /\ PendingIndex(pending_requests, 3) # 0

-----------------------------------------------------------------------------
(* Properties of the workflow engine *)

\* C9: for every context, get_valid_transitions is empty for COMPLETED and
\* FAILED and non-empty for the seven other states, and is_terminal_state is
\* true for exactly COMPLETED and FAILED.
C9_TerminalStatesHaveNoTransitions ==
    eng_pc = "done"
        => /\ Len(eng_valid) = 0 <=> current_state \in {COMPLETED, FAILED}
           /\ eng_terminal <=> current_state \in {COMPLETED, FAILED}

\* the engine was applied to PAUSED: five transitions, not terminal
C9_AppliedToPaused ==
    /\ eng_pc = "done"
    /\ current_state = PAUSED
    /\ Len(eng_valid) = 5
    /\ ~eng_terminal

\* C10: get_next_state of FIXING and of ADDRESSING_REVIEWS is FAILED exactly
\* when fix_attempt_count >= max_attempts, whatever pr_number, the review
\* comments and the failing tests.
C10_ExhaustedAttemptsFail ==
    (eng_pc = "done" /\ current_state \in {FIXING, ADDRESSING_REVIEWS})
        => (eng_next = FAILED <=> context.fix_attempt_count >= max_attempts)

\* ADDRESSING_REVIEWS at exactly the limit, with a pull request and open
\* comments: FAILED
C10_FailedAtTheLimit ==
    /\ eng_pc = "done"
    /\ current_state = ADDRESSING_REVIEWS
    /\ context.fix_attempt_count = max_attempts
    /\ context.pr_number # None
    /\ Len(context.review_comments) > 0
    /\ eng_next = FAILED

\* C11: with fix_attempt_count at or above max_attempts, FAILED is the only
\* target the engine accepts from FIXING and from ADDRESSING_REVIEWS:
\* get_valid_transitions is <<FAILED>> and can_transition_to holds for FAILED
\* alone.
C11_OnlyFailedIsLegalAtTheLimit ==
    (/\ eng_pc = "done"
     /\ current_state \in {FIXING, ADDRESSING_REVIEWS}
     /\ context.fix_attempt_count >= max_attempts)
        => (eng_valid = <<FAILED>> /\ eng_can = {FAILED})

\* C12: from MONITORING, get_next_state is ADDRESSING_REVIEWS whenever there
\* is a review comment or a failing test, and COMPLETED whenever there is
\* neither and pr_number is set.
C12_MonitoringPolicy ==
    (eng_pc = "done" /\ current_state = MONITORING)
        => /\ (Len(context.review_comments) > 0 \/ Len(context.failing_tests) > 0)
                => eng_next = ADDRESSING_REVIEWS
           /\ (/\ Len(context.review_comments) = 0
               /\ Len(context.failing_tests) = 0
               /\ context.pr_number # None)
                => eng_next = COMPLETED

\* MONITORING with a failing test and no comment, no pull request known, the
\* interval long elapsed: ADDRESSING_REVIEWS
C12_FailingTestAlone ==
    /\ eng_pc = "done"
    /\ current_state = MONITORING
    /\ Len(context.failing_tests) > 0
    /\ Len(context.review_comments) = 0
    /\ context.pr_number = None
    /\ context.last_check_time = Some(0)
    /\ now >= monitoring_interval
    /\ eng_next = ADDRESSING_REVIEWS

\* C38: the pending-request table holds only the ids of calls in flight:
\* each id in it is the id of a call_tool, list_tools or initialize call
\* that has not yet returned or raised, so that the table is empty whenever
\* no call is outstanding
C38_PendingOnlyInFlight ==
    /\ \A i \in 1..Len(pending_requests) :
         \E c \in Callers : /\ ~CallerFree(c)
                            /\ call[c].id = pending_requests[i].id
    /\ (\A c \in Callers : CallerFree(c)) => pending_requests = <<>>

\* C39: when start_server has returned False, the server is not left in
\* the registry, so that a later call_tool for it is rejected as not running
C39_FailedStartNotRegistered ==
    \A c \in Callers :
        (call[c].method = "initialize" /\ call[c].pc \in {"timeout", "raised"})
            => call[c].server \notin servers

\* C40: a save_state that returns False has changed neither the state file
\* nor the in-memory current state: after it the in-memory state is the
\* state of the last successful save or load
C40_FailedSaveChangesNothing ==
    [][(/\ sm_pc \in {"open", "write", "close", "rename"}
        /\ sm_pc' = "idle"
        /\ sm_current' # None
        /\ files'[temp_file] = files[temp_file]) =>
           /\ files'[state_file] = files[state_file]
           /\ sm_current' = last_saved \/ sm_current' = loaded]_vars

\* C35: for every state and context, what get_next_state returns is None
\* or one of the states get_valid_transitions returns, so that
\* can_transition_to accepts it
C35_NextStateIsValid ==
    eng_pc = "done" =>
        \/ eng_next = NoState
        \/ /\ \E i \in 1..Len(eng_valid) : eng_valid[i] = eng_next
           /\ eng_next \in eng_can

=============================================================================
